---- MODULE Spec2Model ----
(***************************************************************************)
(* Model of the identity normalisation / chat deduplication / message      *)
(* merge engine of the messages controller (MessagesController).           *)
(*                                                                         *)
(* Strings are sequences of symbols.  A symbol is a one-character string   *)
(* ("5", ":", "@", "|", " ", "B", ...) or one of the domain words          *)
(* "s.whatsapp.net", "lid", "g.us", "broadcast", "newsletter", "status",   *)
(* which stand for their characters and occur nowhere else.  The empty     *)
(* sequence stands for the empty string and for a missing (undefined)      *)
(* field: the code only ever tests such fields for truthiness.             *)
(***************************************************************************)
EXTENDS Integers, Sequences, FiniteSets, TLC

VARIABLES
    \* --- normaliser (normalizeJid / getJidVariations applied to one address)
    npc, jid, normalized, renormalized, variations, variantInfo,
    \* --- deduplicateChats applied to one list of raw chats
    dpc, rawChats, dedupResult,
    \* --- the environment: whether WPP_API_BASE_URL and WPP_API_KEY are set
    config,
    \* --- one getChats request: its position, the instances of the user, the
    \* per-instance chat-list calls (with the gateway's replies), the order in
    \* which they settled, the deduplicated chats, the unmatched linked
    \* identifiers, the contact lookups, and the response
    cpc, userInstances, chatCalls, chatOrder, allChats,
    unmatchedLids, lookupAt, lookups, chatsResponse,
    \* --- one getMessages request: its position, its parameters, the query
    \* set, the per-address message-list calls (with the gateway's replies),
    \* the order in which they settled, and the response
    mpc, request, jidsToQuery, msgCalls, msgOrder, msgResponse,
    \* --- getChatTimestamp applied to one chat record, and the three places
    \* that compare timestamps applied to that record and a reference record
    tpc, tchat, timestamp, comparisons

nvars == <<npc, jid, normalized, renormalized, variations, variantInfo>>
dvars == <<dpc, rawChats, dedupResult>>
evars == <<config>>
cvars == <<cpc, userInstances, chatCalls, chatOrder, allChats,
           unmatchedLids, lookupAt, lookups, chatsResponse>>
mvars == <<mpc, request, jidsToQuery, msgCalls, msgOrder, msgResponse>>
tvars == <<tpc, tchat, timestamp, comparisons>>
vars == <<evars, nvars, dvars, cvars, mvars, tvars>>

\* ------------------------------------------------------------------------
\* Bounds of the model
\* ------------------------------------------------------------------------
\* longest local part (before '@') of the addresses fed to the normaliser
MaxLocalLen == 16
\* longest list of raw chats fed to deduplicateChats
MaxChats == 3
\* longest chat list one instance's gateway returns to getChats
MaxInstChats == 2
\* longest record list the gateway returns for one address to getMessages
MaxRecords == 2

\* ------------------------------------------------------------------------
\* String primitives (String.prototype.*)
\* ------------------------------------------------------------------------
\* s.indexOf(c): 1-based position of the first c, 0 when absent (JS: -1)
IndexOf(s, c) ==
    IF \E i \in 1..Len(s) : s[i] = c
    THEN CHOOSE i \in 1..Len(s) : s[i] = c /\ \A k \in 1..(i-1) : s[k] # c
    ELSE 0

\* s.slice(from0, to0) with JS 0-based half-open indices, 0 <= from0
Slice(s, from0, to0) ==
    LET hi == IF to0 > Len(s) THEN Len(s) ELSE to0
    IN  IF from0 >= hi THEN <<>> ELSE SubSeq(s, from0 + 1, hi)

\* s.slice(from0)
SliceFrom(s, from0) == Slice(s, from0, Len(s))

\* s.endsWith(suffix)
EndsWith(s, suffix) ==
    /\ Len(s) >= Len(suffix)
    /\ SubSeq(s, Len(s) - Len(suffix) + 1, Len(s)) = suffix

\* s.startsWith(prefix)
StartsWith(s, prefix) ==
    /\ Len(s) >= Len(prefix)
    /\ SubSeq(s, 1, Len(prefix)) = prefix

\* s.includes(c)
Includes(s, c) == \E i \in 1..Len(s) : s[i] = c

\* array.includes(x)
InSeq(x, s) == \E i \in 1..Len(s) : s[i] = x

DigitSyms == {"0", "1", "2", "3", "4", "5", "6", "7", "8", "9"}

\* mutant: no upper limit on the number of digits
MatchesPhonePattern_NoLimit(s) ==
    /\ Len(s) >= 10
    /\ \A i \in 1..Len(s) : s[i] \in DigitSyms

\* /^\d{10,15}$/.test(s)
MatchesPhonePattern(s) ==
    /\ Len(s) >= 10
    /\ Len(s) <= 15
    /\ \A i \in 1..Len(s) : s[i] \in DigitSyms

StdDomain == <<"@", "s.whatsapp.net">>
LidDomain == <<"@", "lid">>
GroupDomain == <<"@", "g.us">>
BroadcastDomain == <<"@", "broadcast">>
StatusBroadcast == <<"status", "@", "broadcast">>

\* ------------------------------------------------------------------------
\* Identifier classifier & normaliser
\* ------------------------------------------------------------------------
isStandardUserJid(j) == EndsWith(j, StdDomain)

isGroupOrBroadcastJid(j) == EndsWith(j, GroupDomain) \/ j = StatusBroadcast

isLidJid(j) == EndsWith(j, LidDomain)

\* { phone, domain }: the local part (cut at ':' for an @lid address) and the
\* text from the first '@' on
extractPhoneFromJid(j) ==
    LET atIdx == IndexOf(j, "@")
    IN  IF atIdx = 0 THEN [phone |-> j, domain |-> <<>>]
        ELSE
          LET rawLocal == Slice(j, 0, atIdx - 1)
              domain == SliceFrom(j, atIdx - 1)
          IN  IF domain = LidDomain
              THEN LET colonIdx == IndexOf(rawLocal, ":")
                   IN  [phone |-> IF colonIdx > 0
                                  THEN Slice(rawLocal, 0, colonIdx - 1)
                                  ELSE rawLocal,
                        domain |-> domain]
              ELSE [phone |-> rawLocal, domain |-> domain]

\* mutant: the ninth digit is put after the country code instead of after
\* the area code
normalizeBrazilianNumber_WrongPos(phone) ==
    IF ~StartsWith(phone, <<"5", "5">>) THEN phone
    ELSE IF Len(phone) = 12
         THEN <<"5", "5">> \o <<"9">> \o Slice(phone, 2, 4) \o SliceFrom(phone, 4)
         ELSE phone

normalizeBrazilianNumber(phone) ==
    IF ~StartsWith(phone, <<"5", "5">>) THEN phone
    ELSE IF Len(phone) = 12
         THEN <<"5", "5">> \o Slice(phone, 2, 4) \o <<"9">> \o SliceFrom(phone, 4)
         ELSE phone

normalizeJid(j) ==
    IF j = <<>> THEN j
    ELSE
      LET atIdx == IndexOf(j, "@")
      IN  IF atIdx = 0 THEN j
          ELSE
            LET rawLocal == Slice(j, 0, atIdx - 1)
                pd == extractPhoneFromJid(j)
            IN  IF pd.domain = LidDomain
                THEN IF Includes(rawLocal, ":") /\ MatchesPhonePattern(pd.phone)
                     THEN normalizeBrazilianNumber(pd.phone) \o StdDomain
                     ELSE j
                ELSE IF pd.domain # StdDomain THEN j
                ELSE normalizeBrazilianNumber(pd.phone) \o pd.domain

\* mutant: only the 12-digit form is expanded; the canonical form is not given
\* its legacy spelling
getJidVariations_NoLegacy(j) ==
    IF j = <<>> THEN <<j>>
    ELSE
      LET atIdx == IndexOf(j, "@")
      IN  IF atIdx = 0 THEN <<j>>
          ELSE
            LET number == Slice(j, 0, atIdx - 1)
                domain == SliceFrom(j, atIdx - 1)
            IN  IF domain # StdDomain \/ ~StartsWith(number, <<"5", "5">>)
                THEN <<j>>
                ELSE IF Len(number) = 12
                     THEN <<j, <<"5", "5">> \o Slice(number, 2, 4) \o <<"9">>
                                  \o SliceFrom(number, 4) \o domain>>
                     ELSE <<j>>

\* mutant: the legacy spelling is produced for every 13-digit number, whatever
\* its fifth digit
getJidVariations_AnyFifthDigit(j) ==
    IF j = <<>> THEN <<j>>
    ELSE
      LET atIdx == IndexOf(j, "@")
      IN  IF atIdx = 0 THEN <<j>>
          ELSE
            LET number == Slice(j, 0, atIdx - 1)
                domain == SliceFrom(j, atIdx - 1)
            IN  IF domain # StdDomain \/ ~StartsWith(number, <<"5", "5">>)
                THEN <<j>>
                ELSE IF Len(number) = 13
                     THEN <<j, <<"5", "5">> \o Slice(number, 2, 4)
                                  \o SliceFrom(number, 5) \o domain>>
                     ELSE IF Len(number) = 12
                          THEN <<j, <<"5", "5">> \o Slice(number, 2, 4) \o <<"9">>
                                       \o SliceFrom(number, 4) \o domain>>
                          ELSE <<j>>

getJidVariations(j) ==
    IF j = <<>> THEN <<j>>
    ELSE
      LET atIdx == IndexOf(j, "@")
      IN  IF atIdx = 0 THEN <<j>>
          ELSE
            LET number == Slice(j, 0, atIdx - 1)
                domain == SliceFrom(j, atIdx - 1)
            IN  IF domain # StdDomain \/ ~StartsWith(number, <<"5", "5">>)
                THEN <<j>>
                ELSE IF Len(number) = 13 /\ number[5] = "9"
                     THEN <<j, <<"5", "5">> \o Slice(number, 2, 4)
                                  \o SliceFrom(number, 5) \o domain>>
                     ELSE IF Len(number) = 12
                          THEN <<j, <<"5", "5">> \o Slice(number, 2, 4) \o <<"9">>
                                       \o SliceFrom(number, 4) \o domain>>
                          ELSE <<j>>

\* ------------------------------------------------------------------------
\* Chat records
\* ------------------------------------------------------------------------
\* A timestamp-like field of a gateway record:
\*   k = "none"  the field is missing (undefined)
\*   k = "num"   a number v
\*   k = "long"  a wrapped low/high pair whose low component is v
\*   k = "obj"   an object without a low component
\*   k = "str"   a string that parseInt reads as v (v = -1: not a number)
NoVal == [k |-> "none", v |-> 0]
NumVal(n) == [k |-> "num", v |-> n]
LongVal(n) == [k |-> "long", v |-> n]

\* chat.lastMessage: present or not, with its messageTimestamp
NoMessage == [present |-> FALSE, messageTimestamp |-> NoVal]
Message(ts) == [present |-> TRUE, messageTimestamp |-> ts]

\* chat.updatedAt: missing, an ISO date string worth v milliseconds, or a
\* string Date cannot parse (k = "bad")
NoDate == [k |-> "none", v |-> 0]
IsoDate(ms) == [k |-> "iso", v |-> ms]

\* x || 0 for a count that is a number or missing (-1 stands for undefined)
OrZero(x) == IF x < 0 THEN 0 ELSE x

\* JS truthiness of a timestamp-like field
Truthy(t) ==
    \/ t.k \in {"long", "obj"}
    \/ t.k = "num" /\ t.v # 0
    \/ t.k = "str"

\* the value a timestamp-like field yields: [ok, n]; ok = FALSE: fall through
TimestampOf(t) ==
    IF ~Truthy(t) THEN [ok |-> FALSE, n |-> 0]
    ELSE IF t.k = "long" THEN [ok |-> TRUE, n |-> t.v]
    ELSE IF t.k \in {"num", "str"} /\ t.v > 0 THEN [ok |-> TRUE, n |-> t.v]
    ELSE [ok |-> FALSE, n |-> 0]

\* mutant: the legacy fields are consulted before updatedAt
getChatTimestamp_LegacyFirst(c) ==
    LET msgTs == IF c.lastMessage.present
                 THEN c.lastMessage.messageTimestamp ELSE NoVal
        fromMsg == TimestampOf(msgTs)
        fromLegacy1 == TimestampOf(c.lastMsgTimestamp)
        fromLegacy2 == TimestampOf(c.conversationTimestamp)
    IN  IF fromMsg.ok THEN fromMsg.n
        ELSE IF fromLegacy1.ok THEN fromLegacy1.n
        ELSE IF fromLegacy2.ok THEN fromLegacy2.n
        ELSE IF c.updatedAt.k = "iso" THEN c.updatedAt.v \div 1000
        ELSE 0

getChatTimestamp(chat) ==
    LET msgTs == IF chat.lastMessage.present
                 THEN chat.lastMessage.messageTimestamp ELSE NoVal
        fromMsg == TimestampOf(msgTs)
        fromLegacy1 == TimestampOf(chat.lastMsgTimestamp)
        fromLegacy2 == TimestampOf(chat.conversationTimestamp)
    IN  IF fromMsg.ok THEN fromMsg.n
        ELSE IF chat.updatedAt.k = "iso" THEN chat.updatedAt.v \div 1000
        ELSE IF fromLegacy1.ok THEN fromLegacy1.n
        ELSE IF fromLegacy2.ok THEN fromLegacy2.n
        ELSE 0

\* chat.remoteJid || chat.id || ''
RawJidOf(chat) == IF chat.remoteJid # <<>> THEN chat.remoteJid ELSE chat.id

\* s.toLowerCase(), over the letters the model uses
LowerSym(c) ==
    CASE c = "A" -> "a"
      [] c = "B" -> "b"
      [] c = "O" -> "o"
      [] OTHER -> c

ToLowerCase(s) == [i \in 1..Len(s) |-> LowerSym(s[i])]

\* s.trim()
RECURSIVE TrimStart(_)
TrimStart(s) ==
    IF s # <<>> /\ Head(s) = " " THEN TrimStart(Tail(s)) ELSE s

RECURSIVE TrimEnd(_)
TrimEnd(s) ==
    IF s # <<>> /\ s[Len(s)] = " " THEN TrimEnd(SubSeq(s, 1, Len(s) - 1)) ELSE s

Trim(s) == TrimEnd(TrimStart(s))

\* ------------------------------------------------------------------------
\* Chat deduplicator.  The Map is a sequence of entries {key, chat, allJids}
\* in insertion order; hasStandardJid is a set of keys.
\* ------------------------------------------------------------------------
\* position of the entry with this key, 0 when there is none
FindKey(map, key) ==
    IF \E i \in 1..Len(map) : map[i].key = key
    THEN CHOOSE i \in 1..Len(map) : map[i].key = key
    ELSE 0

\* map.delete(key)
DeleteKey(map, key) == SelectSeq(map, LAMBDA e : e.key # key)

\* mutant: the key is built from the raw address, not from the normalised one
chatKey_Raw(rawJid, instanceName) == rawJid \o <<"|">> \o instanceName

\* `${normalized}|${chat.instanceName}`
chatKey(rawJid, instanceName) ==
    normalizeJid(rawJid) \o <<"|">> \o instanceName

\* mutant: the addresses of the records that lost the comparison are dropped
mergeCollision_DropLoser(existing, chat, rawJid) ==
    LET existingTs == getChatTimestamp(existing.chat)
        newTs == getChatTimestamp(chat)
        allJids == IF newTs > existingTs THEN <<rawJid>> ELSE existing.allJids
        mergedUnread == OrZero(existing.chat.unreadCount) + OrZero(chat.unreadCount)
        winner == IF newTs > existingTs
                  THEN [chat EXCEPT !._allJids = allJids, !.unreadCount = mergedUnread]
                  ELSE [existing.chat EXCEPT !._allJids = allJids,
                                             !.unreadCount = mergedUnread]
        promoted == IF isStandardUserJid(rawJid) /\ ~isStandardUserJid(winner.remoteJid)
                    THEN [winner EXCEPT !.remoteJid = rawJid]
                    ELSE winner
    IN  [key |-> existing.key, chat |-> promoted, allJids |-> allJids]

\* the merge branch of the key-pass: the map entry after a colliding record
mergeCollision(existing, chat, rawJid) ==
    LET allJids == Append(existing.allJids, rawJid)
        existingTs == getChatTimestamp(existing.chat)
        newTs == getChatTimestamp(chat)
        mergedUnread == OrZero(existing.chat.unreadCount) + OrZero(chat.unreadCount)
        winner == IF newTs > existingTs
                  THEN [chat EXCEPT !._allJids = allJids, !.unreadCount = mergedUnread]
                  ELSE [existing.chat EXCEPT !._allJids = allJids,
                                             !.unreadCount = mergedUnread]
        promoted == IF isStandardUserJid(rawJid) /\ ~isStandardUserJid(winner.remoteJid)
                    THEN [winner EXCEPT !.remoteJid = rawJid]
                    ELSE winner
    IN  [key |-> existing.key, chat |-> promoted, allJids |-> allJids]

\* one iteration of the key-pass loop; st = [map, hasStandardJid]
keyPassStep(st, chat) ==
    LET rawJid == RawJidOf(chat)
        key == chatKey(rawJid, chat.instanceName)
        isStandard == isStandardUserJid(rawJid)
        has == IF isStandard THEN st.hasStandardJid \cup {key} ELSE st.hasStandardJid
        at == FindKey(st.map, key)
    IN  IF rawJid = <<>> THEN st
        ELSE IF at = 0
        THEN [map |-> Append(st.map, [key |-> key,
                                      chat |-> [chat EXCEPT !._allJids = <<rawJid>>],
                                      allJids |-> <<rawJid>>]),
              hasStandardJid |-> has]
        ELSE [map |-> [st.map EXCEPT ![at] = mergeCollision(st.map[at], chat, rawJid)],
              hasStandardJid |-> has]

RECURSIVE keyPassFrom(_, _, _)
keyPassFrom(chats, i, st) ==
    IF i > Len(chats) THEN st
    ELSE keyPassFrom(chats, i + 1, keyPassStep(st, chats[i]))

keyPass(chats) == keyPassFrom(chats, 1, [map |-> <<>>, hasStandardJid |-> {}])

\* the keys of the entries the name-pass has to resolve, in map order
unmatchedLidKeysOf(st) ==
    LET picked == SelectSeq(st.map, LAMBDA e :
                    isLidJid(RawJidOf(e.chat)) /\ e.key \notin st.hasStandardJid)
    IN  [i \in 1..Len(picked) |-> picked[i].key]

\* mutant: the candidates are the entries of every instance
standardByInstanceOf_AnyInstance(st, inst) ==
    LET picked == SelectSeq(st.map, LAMBDA e : ~isLidJid(RawJidOf(e.chat)))
    IN  [i \in 1..Len(picked) |-> picked[i].key]

\* standardByInstance.get(inst) || []: the keys of the entries that are not
\* linked-kind, of one instance, in map order
standardByInstanceOf(st, inst) ==
    LET picked == SelectSeq(st.map, LAMBDA e :
                    ~isLidJid(RawJidOf(e.chat)) /\ e.chat.instanceName = inst)
    IN  [i \in 1..Len(picked) |-> picked[i].key]

\* nameMatch || pushNameMatch
namesMatch(lidChat, stdChat) ==
    LET lidName == ToLowerCase(Trim(lidChat.name))
        lidPushName == ToLowerCase(Trim(lidChat.pushName))
        stdName == ToLowerCase(Trim(stdChat.name))
        stdPushName == ToLowerCase(Trim(stdChat.pushName))
    IN  \/ lidName # <<>> /\ stdName # <<>> /\ lidName = stdName
        \/ lidPushName # <<>> /\ stdPushName # <<>> /\ lidPushName = stdPushName

\* mutant: every address is pushed, present or not
PushMissing_All(allJids, jids) == allJids \o jids

\* for (jid of jids) if (!allJids.includes(jid)) allJids.push(jid)
RECURSIVE PushMissing(_, _)
PushMissing(allJids, jids) ==
    IF jids = <<>> THEN allJids
    ELSE PushMissing(IF InSeq(Head(jids), allJids) THEN allJids
                     ELSE Append(allJids, Head(jids)),
                     Tail(jids))

\* mutant: the linked entry's addresses are folded in, its unread count is not
foldLid_NoUnread(std, lidEntry) ==
    LET allJids == PushMissing(std.allJids, lidEntry.allJids)
    IN  [std EXCEPT !.allJids = allJids, !.chat._allJids = allJids]

\* the standard entry after a linked entry was folded into it
foldLid(std, lidEntry) ==
    LET allJids == PushMissing(std.allJids, lidEntry.allJids)
        unread == OrZero(std.chat.unreadCount) + OrZero(lidEntry.chat.unreadCount)
        chat1 == [std.chat EXCEPT !._allJids = allJids, !.unreadCount = unread]
        existingTs == getChatTimestamp(chat1)
        lidTs == getChatTimestamp(lidEntry.chat)
        chat2 == IF lidTs > existingTs /\ lidEntry.chat.lastMessage.present
                 THEN [chat1 EXCEPT !.lastMessage = lidEntry.chat.lastMessage]
                 ELSE chat1
    IN  [std EXCEPT !.allJids = allJids, !.chat = chat2]

\* unmatchedLidsByInstance after the addresses of one entry were recorded:
\* a sequence of [instance, jids] in insertion order
recordUnmatched(unmatched, inst, jids) ==
    IF \E i \in 1..Len(unmatched) : unmatched[i].instance = inst
    THEN [i \in 1..Len(unmatched) |->
            IF unmatched[i].instance = inst
            THEN [unmatched[i] EXCEPT !.jids = unmatched[i].jids \o jids]
            ELSE unmatched[i]]
    ELSE Append(unmatched, [instance |-> inst, jids |-> jids])

\* mutant: the matching candidates in reverse order
matchingCandidates_Reversed(map, candidates, lidChat) ==
    IF Trim(lidChat.name) = <<>> /\ Trim(lidChat.pushName) = <<>> THEN <<>>
    ELSE LET found == SelectSeq(candidates, LAMBDA k :
                        FindKey(map, k) # 0 /\ namesMatch(lidChat, map[FindKey(map, k)].chat))
         IN  [i \in 1..Len(found) |-> found[Len(found) + 1 - i]]

\* the candidates of a linked chat that match it, in candidate order
matchingCandidates(map, candidates, lidChat) ==
    IF Trim(lidChat.name) = <<>> /\ Trim(lidChat.pushName) = <<>> THEN <<>>
    ELSE SelectSeq(candidates, LAMBDA k :
           FindKey(map, k) # 0 /\ namesMatch(lidChat, map[FindKey(map, k)].chat))

\* mutant: an entry that matches no candidate is recorded and kept in the map
namePassStep_KeepsUnmatched(st, keyState, lidKey) ==
    LET at == FindKey(st.map, lidKey)
        lidEntry == st.map[at]
        lidInstance == lidEntry.chat.instanceName
        candidates == standardByInstanceOf(keyState, lidInstance)
        matches == matchingCandidates(st.map, candidates, lidEntry.chat)
    IN  IF at = 0 THEN st
        ELSE IF matches # <<>>
        THEN LET stdAt == FindKey(st.map, Head(matches))
             IN  [map |-> DeleteKey([st.map EXCEPT ![stdAt] = foldLid(st.map[stdAt], lidEntry)],
                                    lidKey),
                  unmatched |-> st.unmatched]
        ELSE [map |-> st.map,
              unmatched |-> recordUnmatched(st.unmatched, lidInstance, lidEntry.allJids)]

\* one iteration of the name-pass loop; st = [map, unmatched]
namePassStep(st, keyState, lidKey) ==
    LET at == FindKey(st.map, lidKey)
        lidEntry == st.map[at]
        lidInstance == lidEntry.chat.instanceName
        candidates == standardByInstanceOf(keyState, lidInstance)
        matches == matchingCandidates(st.map, candidates, lidEntry.chat)
    IN  IF at = 0 THEN st
        ELSE IF matches # <<>>
        THEN LET stdAt == FindKey(st.map, Head(matches))
             IN  [map |-> DeleteKey([st.map EXCEPT ![stdAt] = foldLid(st.map[stdAt], lidEntry)],
                                    lidKey),
                  unmatched |-> st.unmatched]
        ELSE [map |-> DeleteKey(st.map, lidKey),
              unmatched |-> recordUnmatched(st.unmatched, lidInstance, lidEntry.allJids)]

RECURSIVE namePassFrom(_, _, _, _)
namePassFrom(keys, i, keyState, st) ==
    IF i > Len(keys) THEN st
    ELSE namePassFrom(keys, i + 1, keyState, namePassStep(st, keyState, keys[i]))

namePass(keyState) ==
    namePassFrom(unmatchedLidKeysOf(keyState), 1, keyState,
                 [map |-> keyState.map, unmatched |-> <<>>])

\* the final filter: the chats of the entries that are kept
finalFilter(map, hasStandardJid) ==
    LET kept == SelectSeq(map, LAMBDA e :
                  ~(isLidJid(RawJidOf(e.chat)) /\ e.key \in hasStandardJid))
    IN  [i \in 1..Len(kept) |-> kept[i].chat]

deduplicateChats(chats) ==
    LET keyState == keyPass(chats)
        named == namePass(keyState)
    IN  [chats |-> finalFilter(named.map, keyState.hasStandardJid),
         unmatchedLidsByInstance |-> named.unmatched]

\* ------------------------------------------------------------------------
\* Addresses fed to the normaliser
\* ------------------------------------------------------------------------
\* p cut or padded with the digit "7" to n symbols
Pad(p, n) ==
    IF n <= Len(p) THEN SubSeq(p, 1, n)
    ELSE p \o [i \in 1..(n - Len(p)) |-> "7"]

NumberHeads ==
    { <<"5", "5", "1", "1", "9">>, <<"5", "5", "1", "1", "8">>,
      <<"5", "5", "2", "1", "9">>, <<"4", "4", "2", "0", "9">>,
      <<"5", "1", "1", "1", "9">> }

LocalTails == { <<>>, <<":", "1">>, <<"x">>, <<":", "x">>, <<"x", ":", "1">> }

NormDomains ==
    { <<>>, StdDomain, LidDomain, GroupDomain, BroadcastDomain,
      <<"@", "newsletter">>, <<"@", "x">> \o LidDomain }

NormJids ==
    { Pad(h, n) \o t \o d :
        h \in NumberHeads, n \in 0..MaxLocalLen, t \in LocalTails, d \in NormDomains }
    \cup { StatusBroadcast }

\* ------------------------------------------------------------------------
\* Raw chats fed to deduplicateChats
\* ------------------------------------------------------------------------
\* one contact under its three spellings, an opaque linked identifier, and
\* a broadcast list (not the status broadcast)
Jid12 == <<"5", "5", "1", "1", "8", "8", "8", "8", "7", "7", "7", "7">> \o StdDomain
Jid13 == <<"5", "5", "1", "1", "9", "8", "8", "8", "8", "7", "7", "7", "7">> \o StdDomain
JidLidPhone ==
    <<"5", "5", "1", "1", "8", "8", "8", "8", "7", "7", "7", "7", ":", "1">> \o LidDomain
JidLidOpaque == <<"1", "2", "3">> \o LidDomain
JidBroadcastList == <<"1", "1", "1">> \o BroadcastDomain
\* a second contact, with a number outside Brazil
JidUk == <<"4", "4", "2", "0", "7", "1", "2", "3", "4", "5", "6", "7">> \o StdDomain

InstA == <<"A">>
InstB == <<"B">>

NameBob == <<"B", "o", "b">>
NameBobLower == <<"b", "o", "b", " ">>
NameBlank == <<" ">>

\* what a record carries besides its address
ProfileBob ==
    [name |-> NameBob, pushName |-> <<>>, unreadCount |-> 1,
     lastMessage |-> Message(NumVal(1)), updatedAt |-> NoDate]
ProfileBobLower ==
    [name |-> NameBobLower, pushName |-> <<>>, unreadCount |-> 2,
     lastMessage |-> Message(LongVal(2)), updatedAt |-> NoDate]
ProfilePushBob ==
    [name |-> <<>>, pushName |-> NameBob, unreadCount |-> -1,
     lastMessage |-> NoMessage, updatedAt |-> IsoDate(2500)]
ProfileBlank ==
    [name |-> NameBlank, pushName |-> <<>>, unreadCount |-> 4,
     lastMessage |-> Message(NumVal(3)), updatedAt |-> NoDate]

\* no last message, and an updatedAt later than every other profile
ProfileBobUpdated ==
    [name |-> NameBob, pushName |-> <<>>, unreadCount |-> 1,
     lastMessage |-> NoMessage, updatedAt |-> IsoDate(5000)]

Profiles == { ProfileBob, ProfileBobLower, ProfilePushBob, ProfileBlank }

\* a chat record as the gateway sends it, tagged with its instance
RawChat(remoteJid, id, inst, p) ==
    [remoteJid |-> remoteJid, id |-> id, instanceName |-> inst,
     name |-> p.name, pushName |-> p.pushName, unreadCount |-> p.unreadCount,
     lastMessage |-> p.lastMessage, updatedAt |-> p.updatedAt,
     lastMsgTimestamp |-> NoVal, conversationTimestamp |-> NoVal,
     _allJids |-> <<>>]

DedupPool ==
    { RawChat(j, <<>>, InstA, p) : j \in {Jid13, JidLidPhone, JidLidOpaque}, p \in Profiles }
    \cup { RawChat(Jid12, <<>>, InstA, p) : p \in {ProfileBob, ProfilePushBob} }
    \cup { RawChat(JidBroadcastList, <<>>, InstA, ProfileBob) }
    \cup { RawChat(JidLidOpaque, <<>>, InstA, ProfileBobUpdated) }
    \cup { RawChat(JidUk, <<>>, InstA, ProfileBobLower) }
    \cup { RawChat(j, <<>>, InstB, ProfileBob) : j \in {Jid13, JidLidOpaque} }
    \cup { RawChat(<<>>, j, InstA, ProfileBob) : j \in {Jid13, <<>>} }

NoJid == <<"?">>

\* all lists of at most n chats of the pool
RECURSIVE ListsUpTo(_, _)
ListsUpTo(pool, n) ==
    IF n = 0 THEN { <<>> }
    ELSE LET shorter == ListsUpTo(pool, n - 1)
         IN  shorter \cup { Append(l, c) : l \in { x \in shorter : Len(x) = n - 1 },
                                           c \in pool }

\* ------------------------------------------------------------------------
\* The request handlers at rest
\* ------------------------------------------------------------------------
NoResult == [chats |-> <<>>, unmatchedLidsByInstance |-> <<>>]

NoResponse ==
    [status |-> 0, error |-> "", chats |-> <<>>, instances |-> <<>>,
     totalInstances |-> 0, connectedInstances |-> 0]

NIdle ==
    /\ npc = "idle"
    /\ jid = NoJid
    /\ normalized = NoJid
    /\ renormalized = NoJid
    /\ variations = <<>>
    /\ variantInfo = <<>>

DIdle ==
    /\ dpc = "idle"
    /\ rawChats = <<>>
    /\ dedupResult = NoResult

EnvUnset == config = [baseUrl |-> FALSE, apiKey |-> FALSE]

CIdle ==
    /\ cpc = "idle"
    /\ userInstances = <<>>
    /\ chatCalls = <<>>
    /\ chatOrder = <<>>
    /\ allChats = <<>>
    /\ unmatchedLids = <<>>
    /\ lookupAt = 0
    /\ lookups = <<>>
    /\ chatsResponse = NoResponse

NoMsgResponse == [status |-> 0, error |-> "", messages |-> <<>>, total |-> 0]

NoRequest == [remoteJid |-> <<>>, allJids |-> <<>>]

MIdle ==
    /\ mpc = "idle"
    /\ request = NoRequest
    /\ jidsToQuery = <<>>
    /\ msgCalls = <<>>
    /\ msgOrder = <<>>
    /\ msgResponse = NoMsgResponse

TIdle ==
    /\ tpc = "idle"
    /\ tchat = RawChat(<<>>, <<>>, <<>>, ProfileBob)
    /\ timestamp = 0
    /\ comparisons = [keyPass |-> <<>>, namePass |-> <<>>, sort |-> <<>>]

\* ------------------------------------------------------------------------
\* Specification of the deduplicator: one list of raw chats, deduplicated
\* ------------------------------------------------------------------------

DStart ==
    /\ dpc = "input"
    /\ \E n \in 0..MaxChats : rawChats \in [1..n -> DedupPool]
    /\ dedupResult = NoResult

DeduplicateCall ==
    /\ dpc = "input"
    /\ dedupResult' = deduplicateChats(rawChats)
    /\ dpc' = "done"
    /\ UNCHANGED rawChats
    /\ UNCHANGED <<evars, nvars, cvars, mvars, tvars>>

DInit == DStart /\ EnvUnset /\ NIdle /\ CIdle /\ MIdle /\ TIdle

DNext == DeduplicateCall

SpecDedup == DInit /\ [][DNext]_vars

\* ------------------------------------------------------------------------
\* Specification of the normaliser: one address, normalised, normalised
\* again, and expanded into its variations
\* ------------------------------------------------------------------------
NStart ==
    /\ npc = "input"
    /\ jid \in NormJids
    /\ normalized = NoJid
    /\ renormalized = NoJid
    /\ variations = <<>>
    /\ variantInfo = <<>>

NormalizeCall ==
    /\ npc = "input"
    /\ normalized' = normalizeJid(jid)
    /\ npc' = "normalized"
    /\ UNCHANGED <<jid, renormalized, variations, variantInfo>>
    /\ UNCHANGED <<evars, dvars, cvars, mvars, tvars>>

RenormalizeCall ==
    /\ npc = "normalized"
    /\ renormalized' = normalizeJid(normalized)
    /\ npc' = "renormalized"
    /\ UNCHANGED <<jid, normalized, variations, variantInfo>>
    /\ UNCHANGED <<evars, dvars, cvars, mvars, tvars>>

VariationsCall ==
    /\ npc = "renormalized"
    /\ variations' = getJidVariations(jid)
    /\ npc' = "varied"
    /\ UNCHANGED <<jid, normalized, renormalized, variantInfo>>
    /\ UNCHANGED <<evars, dvars, cvars, mvars, tvars>>

\* every variation is itself expanded and normalised
VariantsCall ==
    /\ npc = "varied"
    /\ variantInfo' = [i \in 1..Len(variations) |->
                         [vars |-> getJidVariations(variations[i]),
                          norm |-> normalizeJid(variations[i])]]
    /\ npc' = "done"
    /\ UNCHANGED <<jid, normalized, renormalized, variations>>
    /\ UNCHANGED <<evars, dvars, cvars, mvars, tvars>>

NNext ==
    \/ NormalizeCall
    \/ RenormalizeCall
    \/ VariationsCall
    \/ VariantsCall

NInit == NStart /\ EnvUnset /\ DIdle /\ CIdle /\ MIdle /\ TIdle

SpecNorm == NInit /\ [][NNext]_vars

\* ------------------------------------------------------------------------
\* getChats: instance fan-out, join, contact lookup, sort, response
\* ------------------------------------------------------------------------
\* instance.name || instance.instanceName
InstanceNameOf(instance) ==
    IF instance.name # <<>> THEN instance.name ELSE instance.instanceName

\* InstancesService.stripUserPrefix
stripUserPrefix(instanceName, userId) ==
    LET prefix == userId \o <<"_">>
    IN  IF StartsWith(instanceName, prefix)
        THEN SliceFrom(instanceName, Len(prefix))
        ELSE instanceName

\* the instances of the effective user, with fullName and displayName
userInstancesOf(allInstances, effectiveUserId) ==
    LET mine == SelectSeq(allInstances, LAMBDA instance :
                  /\ InstanceNameOf(instance) # <<>>
                  /\ StartsWith(InstanceNameOf(instance), effectiveUserId \o <<"_">>))
    IN  [i \in 1..Len(mine) |->
           [fullName |-> InstanceNameOf(mine[i]),
            displayName |-> stripUserPrefix(InstanceNameOf(mine[i]), effectiveUserId)]]

\* mutant: the chats are filtered but not tagged with the display name
taggedChatsOf_Untagged(chats, displayName) ==
    SelectSeq(chats, LAMBDA chat : ~isGroupOrBroadcastJid(RawJidOf(chat)))

\* chats.filter(not group / broadcast).map(tag with the display name)
taggedChatsOf(chats, displayName) ==
    LET kept == SelectSeq(chats, LAMBDA chat : ~isGroupOrBroadcastJid(RawJidOf(chat)))
    IN  [i \in 1..Len(kept) |-> [kept[i] EXCEPT !.instanceName = displayName]]

\* mutant: a non-success status is treated like a success with no chats
chatCallResult_ErrorConnected(inst, reply) ==
    IF reply.kind = "throw"
    THEN [chats |-> <<>>, connected |-> FALSE, name |-> inst.displayName]
    ELSE IF reply.kind \in {"httpError", "notArray"}
    THEN [chats |-> <<>>, connected |-> TRUE, name |-> inst.displayName]
    ELSE [chats |-> taggedChatsOf(reply.chats, inst.displayName),
          connected |-> TRUE, name |-> inst.displayName]

\* what one branch of the fan-out resolves to.  reply.kind:
\*   "throw"      fetch (or reading the body) rejected
\*   "httpError"  a non-success status
\*   "notArray"   a success whose body is no array
\*   "array"      a success whose body is the array reply.chats
chatCallResult(inst, reply) ==
    IF reply.kind \in {"throw", "httpError"}
    THEN [chats |-> <<>>, connected |-> FALSE, name |-> inst.displayName]
    ELSE IF reply.kind = "notArray"
    THEN [chats |-> <<>>, connected |-> TRUE, name |-> inst.displayName]
    ELSE [chats |-> taggedChatsOf(reply.chats, inst.displayName),
          connected |-> TRUE, name |-> inst.displayName]

\* mutant: the results are flattened in the order in which the calls settled
RECURSIVE FlatMapChats_CompletionOrder(_, _)
FlatMapChats_CompletionOrder(results, i) ==
    IF i > Len(results) THEN <<>>
    ELSE results[IF i <= Len(chatOrder) THEN chatOrder[i] ELSE i].chats
           \o FlatMapChats_CompletionOrder(results, i + 1)

\* results.flatMap(r => r.chats)
RECURSIVE FlatMapChats(_, _)
FlatMapChats(results, i) ==
    IF i > Len(results) THEN <<>>
    ELSE results[i].chats \o FlatMapChats(results, i + 1)

\* the contacts' lid -> phone mapping; later contacts overwrite earlier ones.
\* The result is the phone address of lidJid, <<>> when there is none.
RECURSIVE lidToPhoneGet(_, _)
lidToPhoneGet(contacts, lidJid) ==
    IF contacts = <<>> THEN <<>>
    ELSE LET contact == contacts[Len(contacts)]
             lid == IF contact.lid # <<>> THEN contact.lid ELSE contact.lidJid
             id == IF contact.id # <<>> THEN contact.id ELSE contact.remoteJid
             phone == IF contact.phoneNumber # <<>> THEN contact.phoneNumber
                      ELSE IF EndsWith(id, StdDomain) THEN id ELSE <<>>
         IN  IF lid # <<>> /\ phone # <<>> /\ lid = lidJid THEN phone
             ELSE lidToPhoneGet(SubSeq(contacts, 1, Len(contacts) - 1), lidJid)

\* mutant: the merge also counts the linked identifier as one unread message
mergeResolvedLid_CountsUnread(chats, instanceName, lidJid, phoneJid) ==
    LET phoneVariations == getJidVariations(phoneJid)
        hits == { i \in 1..Len(chats) :
                    /\ chats[i].instanceName = instanceName
                    /\ \/ /\ chats[i].remoteJid # <<>>
                          /\ InSeq(chats[i].remoteJid, phoneVariations)
                       \/ \E k \in 1..Len(chats[i]._allJids) :
                            InSeq(chats[i]._allJids[k], phoneVariations) }
    IN  IF hits = {} THEN chats
        ELSE LET at == CHOOSE i \in hits : \A k \in hits : i <= k
             IN  IF InSeq(lidJid, chats[at]._allJids) THEN chats
                 ELSE [chats EXCEPT ![at]._allJids = Append(@, lidJid),
                                    ![at].unreadCount = OrZero(@) + 1]

\* chats after one resolved linked identifier was merged into the first chat
\* of the instance that carries one of the phone address's variations
mergeResolvedLid(chats, instanceName, lidJid, phoneJid) ==
    LET phoneVariations == getJidVariations(phoneJid)
        hits == { i \in 1..Len(chats) :
                    /\ chats[i].instanceName = instanceName
                    /\ \/ /\ chats[i].remoteJid # <<>>
                          /\ InSeq(chats[i].remoteJid, phoneVariations)
                       \/ \E k \in 1..Len(chats[i]._allJids) :
                            InSeq(chats[i]._allJids[k], phoneVariations) }
    IN  IF hits = {} THEN chats
        ELSE LET at == CHOOSE i \in hits : \A k \in hits : i <= k
             IN  IF InSeq(lidJid, chats[at]._allJids) THEN chats
                 ELSE [chats EXCEPT ![at]._allJids = Append(@, lidJid)]

\* the loop over the unmatched linked identifiers of one instance
RECURSIVE mergeResolvedLids(_, _, _, _)
mergeResolvedLids(chats, instanceName, lidJids, contacts) ==
    IF lidJids = <<>> THEN chats
    ELSE LET phoneJid == lidToPhoneGet(contacts, Head(lidJids))
             merged == IF phoneJid = <<>> THEN chats
                       ELSE mergeResolvedLid(chats, instanceName, Head(lidJids), phoneJid)
         IN  mergeResolvedLids(merged, instanceName, Tail(lidJids), contacts)

\* the chats after the findContacts call of one instance settled
lookupResult(chats, entry, reply) ==
    IF reply.kind = "array"
    THEN mergeResolvedLids(chats, entry.instance, entry.jids, reply.contacts)
    ELSE chats

\* mutant: the chats are left in the order deduplicateChats produced
sortChats_Unsorted(chats) == chats

\* chats with c inserted behind every chat that is at least as recent
RECURSIVE InsertByTimestamp(_, _)
InsertByTimestamp(sorted, c) ==
    IF sorted = <<>> THEN <<c>>
    ELSE IF getChatTimestamp(c) - getChatTimestamp(Head(sorted)) > 0
         THEN <<c>> \o sorted
         ELSE <<Head(sorted)>> \o InsertByTimestamp(Tail(sorted), c)

RECURSIVE SortFrom(_, _, _)
SortFrom(chats, i, sorted) ==
    IF i > Len(chats) THEN sorted
    ELSE SortFrom(chats, i + 1, InsertByTimestamp(sorted, chats[i]))

\* allChats.sort((a, b) => getChatTimestamp(b) - getChatTimestamp(a)), stable
sortChats(chats) == SortFrom(chats, 1, <<>>)

\* the position, from `from` on, of the first unmatched entry whose instance
\* is one of the user's; 0 when there is none
nextLookup(unmatched, instances, from) ==
    LET found == { i \in from..Len(unmatched) :
                     \E k \in 1..Len(instances) :
                       instances[k].displayName = unmatched[i].instance }
    IN  IF found = {} THEN 0 ELSE CHOOSE i \in found : \A k \in found : i <= k

ErrorResponse(status, error) ==
    [status |-> status, error |-> error, chats |-> <<>>, instances |-> <<>>,
     totalInstances |-> 0, connectedInstances |-> 0]

\* res.json({chats, instances, totalInstances, connectedInstances})
chatsResponseOf(chats, calls, instances) ==
    LET instanceStatuses ==
          [i \in 1..Len(calls) |->
             [name |-> calls[i].result.name, connected |-> calls[i].result.connected]]
    IN  [status |-> 200, error |-> "",
         chats |-> sortChats(chats),
         instances |-> instanceStatuses,
         totalInstances |-> Len(instances),
         connectedInstances |->
           Cardinality({ i \in 1..Len(instanceStatuses) : instanceStatuses[i].connected })]

\* ------------------------------------------------------------------------
\* What the gateway may answer to getChats
\* ------------------------------------------------------------------------
EffectiveUserId == <<"u", "1">>
FullNameA == <<"u", "1", "_", "A">>
FullNameB == <<"u", "1", "_", "B">>
FullNameOther == <<"u", "2", "_", "A">>

\* GET /instance/fetchInstances: the bodies of a success
InstanceLists ==
    { << [name |-> FullNameA, instanceName |-> <<>>],
         [name |-> FullNameOther, instanceName |-> <<>>],
         [name |-> <<>>, instanceName |-> FullNameB] >>,
      << [name |-> FullNameA, instanceName |-> <<>>] >>,
      << [name |-> FullNameOther, instanceName |-> <<>>] >> }

JidGroup == <<"9", "9", "9">> \o GroupDomain

\* POST /chat/findChats/<fullName>: the records the instance may hold
GatewayChats(fullName) ==
    IF fullName = FullNameA
    THEN { RawChat(Jid13, <<>>, <<>>, ProfileBob),
           RawChat(Jid12, <<>>, <<>>, ProfilePushBob),
           RawChat(JidUk, <<>>, <<>>, ProfileBlank),
           RawChat(JidLidOpaque, <<>>, <<>>, ProfileBlank),
           RawChat(JidLidOpaque, <<>>, <<>>, ProfileBobLower),
           RawChat(JidGroup, <<>>, <<>>, ProfileBob) }
    ELSE { RawChat(Jid13, <<>>, <<>>, ProfileBobLower),
           RawChat(JidLidOpaque, <<>>, <<>>, ProfileBlank),
           RawChat(JidBroadcastList, <<>>, <<>>, ProfileBob),
           RawChat(StatusBroadcast, <<>>, <<>>, ProfileBob) }

ChatReplies(fullName) ==
    { [kind |-> k, chats |-> <<>>] : k \in {"throw", "httpError", "notArray"} }
    \cup { [kind |-> "array", chats |-> l] :
             l \in ListsUpTo(GatewayChats(fullName), MaxInstChats) }

Contact(lid, lidJid, phoneNumber, id) ==
    [lid |-> lid, lidJid |-> lidJid, phoneNumber |-> phoneNumber,
     id |-> id, remoteJid |-> <<>>]

\* POST /chat/findContacts/<fullName>
ContactReplies ==
    { [kind |-> k, contacts |-> <<>>] : k \in {"throw", "httpError", "notArray"} }
    \cup { [kind |-> "array", contacts |-> l] :
             l \in { <<>>,
                     << Contact(JidLidOpaque, <<>>, Jid13, <<>>) >>,
                     << Contact(<<>>, JidLidOpaque, <<>>, Jid12) >>,
                     << Contact(JidLidOpaque, <<>>, <<>>, JidLidOpaque) >>,
                     << Contact(JidLidOpaque, <<>>, JidUk, <<>>),
                        Contact(JidLidOpaque, <<>>, <<>>, JidLidOpaque) >> } }

NoCall == [state |-> "pending",
           reply |-> [kind |-> "none", chats |-> <<>>],
           result |-> [chats |-> <<>>, connected |-> FALSE, name |-> <<>>]]

\* ------------------------------------------------------------------------
\* Specification of getChats (a regular user's request)
\* ------------------------------------------------------------------------

EnvAny == config \in [baseUrl : BOOLEAN, apiKey : BOOLEAN]

CStart ==
    /\ cpc = "start"
    /\ userInstances = <<>>
    /\ chatCalls = <<>>
    /\ chatOrder = <<>>
    /\ allChats = <<>>
    /\ unmatchedLids = <<>>
    /\ lookupAt = 0
    /\ lookups = <<>>
    /\ chatsResponse = NoResponse

\* the environment check at the head of the handler
GetChatsMisconfigured ==
    /\ cpc = "start"
    /\ ~(config.baseUrl /\ config.apiKey)
    /\ chatsResponse' = ErrorResponse(500, "Server misconfiguration")
    /\ cpc' = "done"
    /\ UNCHANGED <<config, userInstances, chatCalls, chatOrder, allChats,
                   unmatchedLids, lookupAt, lookups>>
    /\ UNCHANGED <<nvars, dvars, mvars, tvars>>

\* mutant: the instance list is requested without the environment check
GetChatsFetchInstances_Unchecked ==
    /\ cpc = "start"
    /\ cpc' = "fetchInstances"
    /\ UNCHANGED <<config, userInstances, chatCalls, chatOrder, allChats,
                   unmatchedLids, lookupAt, lookups, chatsResponse>>
    /\ UNCHANGED <<nvars, dvars, mvars, tvars>>

\* ... passed: GET /instance/fetchInstances is issued
GetChatsFetchInstances ==
    /\ cpc = "start"
    /\ config.baseUrl /\ config.apiKey
    /\ cpc' = "fetchInstances"
    /\ UNCHANGED <<config, userInstances, chatCalls, chatOrder, allChats,
                   unmatchedLids, lookupAt, lookups, chatsResponse>>
    /\ UNCHANGED <<nvars, dvars, mvars, tvars>>

\* the instance list failed: rejected, or a non-success status
FetchInstancesFails ==
    /\ cpc = "fetchInstances"
    /\ \E r \in { ErrorResponse(500, "Unexpected server error"),
                  ErrorResponse(503, "Failed to fetch instances") } :
         chatsResponse' = r
    /\ cpc' = "done"
    /\ UNCHANGED <<config, userInstances, chatCalls, chatOrder, allChats,
                   unmatchedLids, lookupAt, lookups>>
    /\ UNCHANGED <<nvars, dvars, mvars, tvars>>

\* the instance list arrived: the user's instances are picked and one
\* chat-list call per instance is issued
FetchInstancesOk ==
    /\ cpc = "fetchInstances"
    /\ \E allInstances \in InstanceLists :
         /\ userInstances' = userInstancesOf(allInstances, EffectiveUserId)
         /\ chatCalls' = [i \in 1..Len(userInstances') |-> NoCall]
    /\ cpc' = "fanout"
    /\ UNCHANGED <<config, chatOrder, allChats, unmatchedLids, lookupAt,
                   lookups, chatsResponse>>
    /\ UNCHANGED <<nvars, dvars, mvars, tvars>>

\* one chat-list call settles
ChatCallSettles ==
    /\ cpc = "fanout"
    /\ \E i \in 1..Len(chatCalls) :
         /\ chatCalls[i].state = "pending"
         /\ \E reply \in ChatReplies(userInstances[i].fullName) :
              chatCalls' = [chatCalls EXCEPT ![i] =
                              [state |-> "settled", reply |-> reply,
                               result |-> chatCallResult(userInstances[i], reply)]]
         /\ chatOrder' = Append(chatOrder, i)
    /\ UNCHANGED <<cpc, config, userInstances, allChats, unmatchedLids,
                   lookupAt, lookups, chatsResponse>>
    /\ UNCHANGED <<nvars, dvars, mvars, tvars>>

\* Promise.all resolved: flatten, deduplicate, and either issue the first
\* contact lookup or sort and respond
JoinChats ==
    /\ cpc = "fanout"
    /\ \A i \in 1..Len(chatCalls) : chatCalls[i].state = "settled"
    /\ \E flat \in { FlatMapChats([i \in 1..Len(chatCalls) |-> chatCalls[i].result], 1) } :
       \E deduped \in { deduplicateChats(flat) } :
       \E first \in { nextLookup(deduped.unmatchedLidsByInstance, userInstances, 1) } :
         /\ unmatchedLids' = deduped.unmatchedLidsByInstance
         /\ lookupAt' = first
         /\ IF first = 0
            THEN /\ \E response \in { chatsResponseOf(deduped.chats, chatCalls, userInstances) } :
                      /\ chatsResponse' = response
                      /\ allChats' = response.chats
                 /\ cpc' = "done"
                 /\ UNCHANGED lookups
            ELSE /\ allChats' = deduped.chats
                 /\ lookups' = Append(lookups, deduped.unmatchedLidsByInstance[first].instance)
                 /\ cpc' = "resolving"
                 /\ UNCHANGED chatsResponse
    /\ UNCHANGED <<config, userInstances, chatCalls, chatOrder>>
    /\ UNCHANGED <<nvars, dvars, mvars, tvars>>

\* the findContacts call of one instance settles: its resolved identifiers
\* are merged, and the next lookup is issued or the response is sent
LookupSettles ==
    /\ cpc = "resolving"
    /\ \E reply \in ContactReplies :
       \E merged \in { lookupResult(allChats, unmatchedLids[lookupAt], reply) } :
       \E next \in { nextLookup(unmatchedLids, userInstances, lookupAt + 1) } :
         /\ lookupAt' = next
         /\ IF next = 0
            THEN /\ \E response \in { chatsResponseOf(merged, chatCalls, userInstances) } :
                      /\ chatsResponse' = response
                      /\ allChats' = response.chats
                 /\ cpc' = "done"
                 /\ UNCHANGED lookups
            ELSE /\ allChats' = merged
                 /\ lookups' = Append(lookups, unmatchedLids[next].instance)
                 /\ cpc' = "resolving"
                 /\ UNCHANGED chatsResponse
    /\ UNCHANGED <<config, userInstances, chatCalls, chatOrder, unmatchedLids>>
    /\ UNCHANGED <<nvars, dvars, mvars, tvars>>

CInit == EnvAny /\ CStart /\ NIdle /\ DIdle /\ MIdle /\ TIdle

CNext ==
    \/ GetChatsMisconfigured
    \/ GetChatsFetchInstances
    \/ FetchInstancesFails
    \/ FetchInstancesOk
    \/ ChatCallSettles
    \/ JoinChats
    \/ LookupSettles

SpecChats == CInit /\ [][CNext]_vars

\* ------------------------------------------------------------------------
\* Specification of the timestamp extraction: getChatTimestamp applied to
\* one chat record, and the key-pass, the name-pass and the sort applied to
\* that record and a reference record of timestamp 5
\* ------------------------------------------------------------------------
\* chat records with every kind of value in the fields the timestamp is
\* read from
TimestampChats ==
    { [RawChat(Jid12, <<>>, InstA, ProfileBob) EXCEPT
         !.lastMessage = m, !.updatedAt = d,
         !.lastMsgTimestamp = l1, !.conversationTimestamp = l2] :
        m \in { NoMessage }
              \cup { Message(t) :
                       t \in { NoVal, NumVal(0), NumVal(-3), NumVal(7), LongVal(0),
                               LongVal(8), [k |-> "obj", v |-> 0],
                               [k |-> "str", v |-> 9], [k |-> "str", v |-> -1] } },
        d \in { NoDate, IsoDate(2500), IsoDate(6100), [k |-> "bad", v |-> 0] },
        l1 \in { NoVal, NumVal(0), NumVal(4), LongVal(6) },
        l2 \in { NoVal, NumVal(6), [k |-> "str", v |-> -1] } }

RefTimestamp == 5

\* the reference record: a 13-digit standard chat of the same contact
RefChat ==
    [RawChat(Jid13, <<>>, InstA, ProfileBob) EXCEPT
       !.lastMessage = Message(NumVal(RefTimestamp))]

TStart ==
    /\ tpc = "input"
    /\ tchat \in TimestampChats
    /\ timestamp = 0
    /\ comparisons = [keyPass |-> <<>>, namePass |-> <<>>, sort |-> <<>>]

TimestampCall ==
    /\ tpc = "input"
    /\ timestamp' = getChatTimestamp(tchat)
    /\ comparisons' =
         [keyPass |-> deduplicateChats(<<RefChat, tchat>>).chats,
          namePass |-> deduplicateChats(
                         <<RefChat, [tchat EXCEPT !.remoteJid = JidLidOpaque]>>).chats,
          sort |-> sortChats(<<RefChat, [tchat EXCEPT !.remoteJid = JidUk]>>)]
    /\ tpc' = "done"
    /\ UNCHANGED tchat
    /\ UNCHANGED <<evars, nvars, dvars, cvars, mvars>>

TInit == TStart /\ EnvUnset /\ NIdle /\ DIdle /\ CIdle /\ MIdle

TNext == TimestampCall

SpecTimestamp == TInit /\ [][TNext]_vars

\* ------------------------------------------------------------------------
\* getMessages: query set, fan-out, join, merge
\* ------------------------------------------------------------------------
\* InstancesService.getPrefixedInstanceName
getPrefixedInstanceName(userId, instanceName) == userId \o <<"_">> \o instanceName

\* decodeURIComponent: "%40" is the escape of "@"; a lone "%" is a malformed
\* escape, on which the function throws URIError
decodeURIComponent(s) ==
    IF InSeq("%", s) THEN [threw |-> TRUE, value |-> <<>>]
    ELSE [threw |-> FALSE,
          value |-> [i \in 1..Len(s) |-> IF s[i] = "%40" THEN "@" ELSE s[i]]]

\* String.prototype.split(',')
RECURSIVE SplitFrom(_, _, _)
SplitFrom(s, i, piece) ==
    IF i > Len(s) THEN <<piece>>
    ELSE IF s[i] = "," THEN <<piece>> \o SplitFrom(s, i + 1, <<>>)
    ELSE SplitFrom(s, i + 1, Append(piece, s[i]))

Split(s) == SplitFrom(s, 1, <<>>)

\* mutant: the extra addresses are added without their variations
RECURSIVE addExtraJids_NoVariations(_, _)
addExtraJids_NoVariations(jids, pieces) ==
    IF pieces = <<>> THEN [threw |-> FALSE, jids |-> jids]
    ELSE LET d == decodeURIComponent(Trim(Head(pieces)))
         IN  IF d.threw THEN [threw |-> TRUE, jids |-> jids]
             ELSE IF d.value = <<>> THEN addExtraJids_NoVariations(jids, Tail(pieces))
             ELSE addExtraJids_NoVariations(PushMissing(jids, <<d.value>>), Tail(pieces))

\* the loop over the pieces of allJids: threw is TRUE when decoding a piece
\* threw, else jids is the query set with the pieces and their variations
RECURSIVE addExtraJids(_, _)
addExtraJids(jids, pieces) ==
    IF pieces = <<>> THEN [threw |-> FALSE, jids |-> jids]
    ELSE LET d == decodeURIComponent(Trim(Head(pieces)))
         IN  IF d.threw THEN [threw |-> TRUE, jids |-> jids]
             ELSE IF d.value = <<>> THEN addExtraJids(jids, Tail(pieces))
             ELSE addExtraJids(
                    PushMissing(PushMissing(jids, <<d.value>>), getJidVariations(d.value)),
                    Tail(pieces))

\* jidsToQuery, in the insertion order of the Set
queryJids(remoteJid, allJidsParam) ==
    LET d == decodeURIComponent(remoteJid)
    IN  IF d.threw THEN [threw |-> TRUE, jids |-> <<>>]
        ELSE LET primary == PushMissing(<<>>, getJidVariations(d.value))
             IN  IF allJidsParam = <<>> THEN [threw |-> FALSE, jids |-> primary]
                 ELSE addExtraJids(primary, Split(allJidsParam))

\* mutant: without the try / catch a rejected request rejects the call
fetchMessagesForJid_NoCatch(reply) ==
    IF reply.kind = "throw" THEN [threw |-> TRUE, records |-> <<>>]
    ELSE IF reply.kind \in {"records", "messages", "array"}
    THEN [threw |-> FALSE, records |-> reply.records]
    ELSE [threw |-> FALSE, records |-> <<>>]

\* what one message-list call resolves to.  reply.kind:
\*   "throw"      fetch (or reading the body) rejected
\*   "httpError"  a non-success status
\*   "records"    a success with body {messages: {records: [...]}}
\*   "messages"   a success with body {messages: [...]}
\*   "array"      a success whose body is an array
\*   "other"      a success with any other body
fetchMessagesForJid(reply) ==
    IF reply.kind \in {"throw", "httpError"}
    THEN [threw |-> FALSE, records |-> <<>>]
    ELSE IF reply.kind \in {"records", "messages", "array"}
    THEN [threw |-> FALSE, records |-> reply.records]
    ELSE [threw |-> FALSE, records |-> <<>>]

\* record.key?.id || record.id ("" when there is none)
keyIdOf(record) ==
    IF record.key.present /\ record.key.id # "" THEN record.key.id ELSE record.id

\* mutant: every record is pushed, seen or not
mergeRecord_NoDedup(st, record) ==
    LET keyId == keyIdOf(record)
    IN  [seenIds |-> IF keyId # "" THEN st.seenIds \cup {keyId} ELSE st.seenIds,
         mergedRecords |-> Append(st.mergedRecords, record)]

\* one iteration of the inner merge loop
mergeRecord(st, record) ==
    LET keyId == keyIdOf(record)
    IN  IF keyId # "" /\ keyId \in st.seenIds THEN st
        ELSE [seenIds |-> IF keyId # "" THEN st.seenIds \cup {keyId} ELSE st.seenIds,
              mergedRecords |-> Append(st.mergedRecords, record)]

RECURSIVE mergeList(_, _)
mergeList(st, records) ==
    IF records = <<>> THEN st
    ELSE mergeList(mergeRecord(st, Head(records)), Tail(records))

\* mutant: the record lists are merged from the last address to the first
RECURSIVE mergeFrom_Backwards(_, _, _)
mergeFrom_Backwards(allRecordArrays, i, st) ==
    IF i > Len(allRecordArrays) THEN st
    ELSE mergeFrom_Backwards(allRecordArrays, i + 1,
                             mergeList(st, allRecordArrays[Len(allRecordArrays) + 1 - i]))

RECURSIVE mergeFrom(_, _, _)
mergeFrom(allRecordArrays, i, st) ==
    IF i > Len(allRecordArrays) THEN st
    ELSE mergeFrom(allRecordArrays, i + 1, mergeList(st, allRecordArrays[i]))

\* the merge over the record lists, in the order of the query set
mergeRecords(allRecordArrays) ==
    mergeFrom(allRecordArrays, 1, [seenIds |-> {}, mergedRecords |-> <<>>]).mergedRecords

MsgError(status, error) ==
    [status |-> status, error |-> error, messages |-> <<>>, total |-> 0]

\* ------------------------------------------------------------------------
\* What the caller may ask of getMessages and what the gateway may answer
\* ------------------------------------------------------------------------
Jid12Escaped ==
    <<"5", "5", "1", "1", "8", "8", "8", "8", "7", "7", "7", "7", "%40", "s.whatsapp.net">>
JidMalformed == <<"5", "5", "%">>

Requests ==
    [remoteJid : { Jid13, Jid12Escaped, JidLidOpaque, JidMalformed },
     allJids : { <<>>,
                 <<" ">> \o Jid12 \o <<",", ",", " ">> \o JidLidOpaque,
                 JidMalformed }]

KeyedRecord(keyId, text) ==
    [key |-> [present |-> TRUE, id |-> keyId], id |-> "", text |-> text]
IdRecord(id, text) ==
    [key |-> [present |-> FALSE, id |-> ""], id |-> id, text |-> text]

\* POST /chat/findMessages/<instance> for one address: the records held
GatewayRecords(remoteJid) ==
    IF remoteJid = Jid13 THEN { KeyedRecord("m1", "a"), KeyedRecord("", "n") }
    ELSE IF remoteJid = Jid12 THEN { IdRecord("m1", "b"), KeyedRecord("m2", "c") }
    ELSE { KeyedRecord("m1", "d") }

MessageReplies(remoteJid) ==
    { [kind |-> k, records |-> <<>>] : k \in {"throw", "httpError", "other"} }
    \cup { [kind |-> k, records |-> l] :
             k \in {"records", "messages", "array"},
             l \in ListsUpTo(GatewayRecords(remoteJid), MaxRecords) }

NoMsgCall == [state |-> "pending",
              reply |-> [kind |-> "none", records |-> <<>>],
              result |-> [threw |-> FALSE, records |-> <<>>]]

\* ------------------------------------------------------------------------
\* Specification of getMessages (a regular user's request)
\* ------------------------------------------------------------------------
MStart ==
    /\ mpc = "start"
    /\ request \in Requests
    /\ jidsToQuery = <<>>
    /\ msgCalls = <<>>
    /\ msgOrder = <<>>
    /\ msgResponse = NoMsgResponse

\* the environment check at the head of the handler
GetMessagesMisconfigured ==
    /\ mpc = "start"
    /\ ~(config.baseUrl /\ config.apiKey)
    /\ msgResponse' = MsgError(500, "Server misconfiguration")
    /\ mpc' = "done"
    /\ UNCHANGED <<request, jidsToQuery, msgCalls, msgOrder>>
    /\ UNCHANGED <<evars, nvars, dvars, cvars, tvars>>

\* ... passed, but decoding an address threw: the handler's catch answers
GetMessagesBadAddress ==
    /\ mpc = "start"
    /\ config.baseUrl /\ config.apiKey
    /\ queryJids(request.remoteJid, request.allJids).threw
    /\ msgResponse' = MsgError(500, "Unexpected server error")
    /\ mpc' = "done"
    /\ UNCHANGED <<request, jidsToQuery, msgCalls, msgOrder>>
    /\ UNCHANGED <<evars, nvars, dvars, cvars, tvars>>

\* ... and the query set is built: one message-list call per address is issued
GetMessagesFanOut ==
    /\ mpc = "start"
    /\ config.baseUrl /\ config.apiKey
    /\ \E q \in { queryJids(request.remoteJid, request.allJids) } :
         /\ ~q.threw
         /\ jidsToQuery' = q.jids
         /\ msgCalls' = [i \in 1..Len(q.jids) |-> NoMsgCall]
    /\ mpc' = "fanout"
    /\ UNCHANGED <<request, msgOrder, msgResponse>>
    /\ UNCHANGED <<evars, nvars, dvars, cvars, tvars>>

\* one message-list call settles
MessageCallSettles ==
    /\ mpc = "fanout"
    /\ \E i \in 1..Len(msgCalls) :
         /\ msgCalls[i].state = "pending"
         /\ \E reply \in MessageReplies(jidsToQuery[i]) :
              msgCalls' = [msgCalls EXCEPT ![i] =
                             [state |-> "settled", reply |-> reply,
                              result |-> fetchMessagesForJid(reply)]]
         /\ msgOrder' = Append(msgOrder, i)
    /\ UNCHANGED <<mpc, request, jidsToQuery, msgResponse>>
    /\ UNCHANGED <<evars, nvars, dvars, cvars, tvars>>

\* mutant: the merge does not wait for the pending calls
JoinMessages_Early ==
    /\ mpc = "fanout"
    /\ \E merged \in { mergeRecords([i \in 1..Len(msgCalls) |->
                                       msgCalls[i].result.records]) } :
         msgResponse' = [status |-> 200, error |-> "",
                         messages |-> merged, total |-> Len(merged)]
    /\ mpc' = "done"
    /\ UNCHANGED <<request, jidsToQuery, msgCalls, msgOrder>>
    /\ UNCHANGED <<evars, nvars, dvars, cvars, tvars>>

\* Promise.all settled: the lists are merged and the response is sent
JoinMessages ==
    /\ mpc = "fanout"
    /\ \A i \in 1..Len(msgCalls) : msgCalls[i].state = "settled"
    /\ IF \E i \in 1..Len(msgCalls) : msgCalls[i].result.threw
       THEN msgResponse' = MsgError(500, "Unexpected server error")
       ELSE \E merged \in { mergeRecords([i \in 1..Len(msgCalls) |->
                                            msgCalls[i].result.records]) } :
              msgResponse' = [status |-> 200, error |-> "",
                              messages |-> merged, total |-> Len(merged)]
    /\ mpc' = "done"
    /\ UNCHANGED <<request, jidsToQuery, msgCalls, msgOrder>>
    /\ UNCHANGED <<evars, nvars, dvars, cvars, tvars>>

MInit == EnvAny /\ MStart /\ NIdle /\ DIdle /\ CIdle /\ TIdle

MNext ==
    \/ GetMessagesMisconfigured
    \/ GetMessagesBadAddress
    \/ GetMessagesFanOut
    \/ MessageCallSettles
    \/ JoinMessages

SpecMsgs == MInit /\ [][MNext]_vars

\* ------------------------------------------------------------------------
\* Specification of one request, getChats or getMessages, under the event
\* loop's scheduling: a handler step or a settled upstream call that can run
\* eventually runs
\* ------------------------------------------------------------------------
\* the getMessages requests here are those without extra addresses
RInit ==
    /\ EnvAny
    /\ NIdle
    /\ DIdle
    /\ TIdle
    /\ \/ CStart /\ MIdle
       \/ CIdle /\ MStart /\ request.allJids = <<>>

RNext ==
    \/ GetChatsMisconfigured
    \/ GetChatsFetchInstances
    \/ FetchInstancesFails
    \/ FetchInstancesOk
    \/ ChatCallSettles
    \/ JoinChats
    \/ LookupSettles
    \/ GetMessagesMisconfigured
    \/ GetMessagesBadAddress
    \/ GetMessagesFanOut
    \/ MessageCallSettles
    \/ JoinMessages

\* the control state of getChats: its position, the settled calls, the lookup
chatsControl == <<cpc, chatOrder, lookupAt>>

\* what a getChats step does to the control state.  Under RNext the steps
\* that change the control state are the steps of the handler, and one is
\* possible exactly when this action is
ChatsAdvances ==
    \/ /\ cpc = "start"
       /\ cpc' \in {"fetchInstances", "done"}
       /\ UNCHANGED <<chatOrder, lookupAt>>
    \/ /\ cpc = "fetchInstances"
       /\ cpc' \in {"fanout", "done"}
       /\ UNCHANGED <<chatOrder, lookupAt>>
    \/ /\ cpc = "fanout"
       /\ \E i \in 1..Len(chatCalls) :
            /\ chatCalls[i].state = "pending"
            /\ chatOrder' = Append(chatOrder, i)
       /\ UNCHANGED <<cpc, lookupAt>>
    \/ /\ cpc = "fanout"
       /\ \A i \in 1..Len(chatCalls) : chatCalls[i].state = "settled"
       /\ cpc' \in {"resolving", "done"}
       /\ lookupAt' \in 0..Len(userInstances)
       /\ UNCHANGED chatOrder
    \/ /\ cpc = "resolving"
       /\ cpc' \in {"resolving", "done"}
       /\ lookupAt' \in 0..Len(unmatchedLids)
       /\ UNCHANGED chatOrder

SpecRequests ==
    /\ RInit
    /\ [][RNext]_vars
    /\ WF_chatsControl(ChatsAdvances)
    /\ WF_vars(MNext)

\* ------------------------------------------------------------------------
\* Specification of one request, getChats or any getMessages request
\* ------------------------------------------------------------------------
HInit ==
    /\ EnvAny
    /\ NIdle
    /\ DIdle
    /\ TIdle
    /\ \/ CStart /\ MIdle
       \/ CIdle /\ MStart

HNext ==
    \/ GetChatsMisconfigured
    \/ GetChatsFetchInstances
    \/ FetchInstancesFails
    \/ FetchInstancesOk
    \/ ChatCallSettles
    \/ JoinChats
    \/ LookupSettles
    \/ GetMessagesMisconfigured
    \/ GetMessagesBadAddress
    \/ GetMessagesFanOut
    \/ MessageCallSettles
    \/ JoinMessages

SpecHandlers == HInit /\ [][HNext]_vars

\* ------------------------------------------------------------------------
\* Claims about the normaliser (checked under SpecNorm)
\* ------------------------------------------------------------------------
\* a standard address whose local part is 12 digits starting with 55
IsBrazilian12(j) ==
    /\ Len(j) = 14
    /\ SubSeq(j, 13, 14) = StdDomain
    /\ \A i \in 1..12 : j[i] \in DigitSyms
    /\ j[1] = "5" /\ j[2] = "5"

\* a standard address whose local part is 13 digits starting with 55, the
\* fifth being the inserted 9
IsBrazilian13(j) ==
    /\ Len(j) = 15
    /\ SubSeq(j, 14, 15) = StdDomain
    /\ \A i \in 1..13 : j[i] \in DigitSyms
    /\ j[1] = "5" /\ j[2] = "5" /\ j[5] = "9"

\* the 13-digit spelling of a 12-digit address: '9' after the area code
WithNinth(j) == SubSeq(j, 1, 4) \o <<"9">> \o SubSeq(j, 5, Len(j))

\* the 12-digit spelling of a 13-digit address
WithoutNinth(j) == SubSeq(j, 1, 4) \o SubSeq(j, 6, Len(j))

\* C7: normalizeJid turns every 12-digit standard address under country code
\* 55 into the 13-digit form with '9' inserted after the two-digit area code,
\* and normalizeJid applied to its own output changes nothing, for every
\* address.
C7_NinthDigitAndIdempotent ==
    /\ (npc # "input" /\ IsBrazilian12(jid)) =>
          /\ normalized = WithNinth(jid)
          /\ Len(normalized) = 15
          /\ normalized[5] = "9"
    /\ npc \in {"renormalized", "varied", "done"} => renormalized = normalized

C7_Witness ==
    /\ npc = "renormalized"
    /\ IsBrazilian12(jid)
    /\ normalized # jid
    /\ renormalized = normalized

\* C8: for a 12-digit Brazilian address a and its 13-digit spelling b, the
\* variations of a and the variations of b each contain both a and b, and
\* both normalise to b.  The request may start from either spelling.
C8_VariantPairs ==
    npc = "done" =>
      /\ IsBrazilian12(jid) =>
            LET a == jid
                b == WithNinth(jid)
            IN  /\ InSeq(a, variations) /\ InSeq(b, variations)
                /\ normalized = b
                /\ \A i \in 1..Len(variations) :
                      variations[i] = b =>
                        /\ InSeq(a, variantInfo[i].vars)
                        /\ InSeq(b, variantInfo[i].vars)
                        /\ variantInfo[i].norm = b
      /\ IsBrazilian13(jid) =>
            LET b == jid
                a == WithoutNinth(jid)
            IN  /\ InSeq(a, variations) /\ InSeq(b, variations)
                /\ normalized = b
                /\ \A i \in 1..Len(variations) :
                      variations[i] = a =>
                        /\ InSeq(a, variantInfo[i].vars)
                        /\ InSeq(b, variantInfo[i].vars)
                        /\ variantInfo[i].norm = b

C8_Witness ==
    /\ npc = "done"
    /\ IsBrazilian12(jid)
    /\ Len(variations) = 2
    /\ variations[2] = WithNinth(jid)
    /\ Len(variantInfo[2].vars) = 2

\* ------------------------------------------------------------------------
\* Claims about deduplicateChats (checked under SpecDedup)
\* ------------------------------------------------------------------------
\* the positions of the output rows of one instance whose representative
\* address normalises to n
RowsFor(out, n, inst) ==
    { i \in 1..Len(out) :
        out[i].instanceName = inst /\ normalizeJid(RawJidOf(out[i])) = n }

\* the input is a pair of records of one instance with the same normalised key
SameKeyPair ==
    /\ Len(rawChats) = 2
    /\ RawJidOf(rawChats[1]) # <<>>
    /\ RawJidOf(rawChats[2]) # <<>>
    /\ rawChats[1].instanceName = rawChats[2].instanceName
    /\ normalizeJid(RawJidOf(rawChats[1])) = normalizeJid(RawJidOf(rawChats[2]))

\* C1: two raw records of one instance whose addresses normalise to the same
\* key (any timestamps, either order) come out as exactly one entry for that
\* key, whose unread count is the sum of the two.  Stated for the pairs that
\* hold a standard-kind record; a pair of two linked-kind records is no row
\* at all (the name-pass moves it to unmatchedLidsByInstance), which
\* contradicts the claim's "any address kinds" as well.
C1_SameKeyPairMergedOnce ==
    (/\ dpc = "done"
     /\ SameKeyPair
     /\ \E i \in 1..2 : isStandardUserJid(RawJidOf(rawChats[i]))) =>
      LET rows == RowsFor(dedupResult.chats,
                          normalizeJid(RawJidOf(rawChats[1])),
                          rawChats[1].instanceName)
      IN  /\ Cardinality(rows) = 1
          /\ \A i \in rows :
               OrZero(dedupResult.chats[i].unreadCount)
                 = OrZero(rawChats[1].unreadCount) + OrZero(rawChats[2].unreadCount)

\* C2: the list deduplicateChats returns holds at most one entry per
\* Canonical Key: no two rows of one instance have representative addresses
\* that normalise to the same address.
C2_OneRowPerCanonicalKey ==
    dpc = "done" =>
      \A i, k \in 1..Len(dedupResult.chats) :
        (/\ i # k
         /\ dedupResult.chats[i].instanceName = dedupResult.chats[k].instanceName)
        => normalizeJid(RawJidOf(dedupResult.chats[i]))
             # normalizeJid(RawJidOf(dedupResult.chats[k]))

\* a run in which two spellings of one contact collided and another row stayed
C2_Witness ==
    /\ dpc = "done"
    /\ Len(rawChats) = 3
    /\ Len(dedupResult.chats) = 2
    /\ \E i \in 1..2 : Len(dedupResult.chats[i]._allJids) = 2
    /\ \E i, k \in 1..3 :
         /\ RawJidOf(rawChats[i]) = Jid12
         /\ RawJidOf(rawChats[k]) = Jid13
         /\ rawChats[i].instanceName = rawChats[k].instanceName

\* the input is one standard-kind and one linked-kind record of one instance,
\* in either order, whose addresses do not normalise to the same key
StdLidPair(s, l) ==
    /\ Len(rawChats) = 2
    /\ {s, l} = {1, 2}
    /\ isStandardUserJid(RawJidOf(rawChats[s]))
    /\ isLidJid(RawJidOf(rawChats[l]))
    /\ rawChats[s].instanceName = rawChats[l].instanceName
    /\ normalizeJid(RawJidOf(rawChats[s])) # normalizeJid(RawJidOf(rawChats[l]))

\* exactly one row, standard-kind, carrying the unread counts of both records
MergedIntoStandard(s, l) ==
    /\ Len(dedupResult.chats) = 1
    /\ isStandardUserJid(RawJidOf(dedupResult.chats[1]))
    /\ OrZero(dedupResult.chats[1].unreadCount)
         = OrZero(rawChats[s].unreadCount) + OrZero(rawChats[l].unreadCount)

\* C3 as stated: a standard-kind and a linked-kind record of one instance with
\* equal, non-empty names (or push names) and different keys come out as one
\* standard-kind row with the summed unread count.
C3_EqualNamesMerge ==
    dpc = "done" =>
      \A s, l \in 1..2 :
        (/\ StdLidPair(s, l)
         /\ \/ rawChats[s].name = rawChats[l].name /\ rawChats[l].name # <<>>
            \/ rawChats[s].pushName = rawChats[l].pushName /\ rawChats[l].pushName # <<>>)
        => MergedIntoStandard(s, l)

\* C3 amended: the same, for names (or push names) that are equal and not
\* blank, i.e. non-empty once surrounding whitespace is trimmed.
C3_EqualNonBlankNamesMerge ==
    dpc = "done" =>
      \A s, l \in 1..2 :
        (/\ StdLidPair(s, l)
         /\ \/ rawChats[s].name = rawChats[l].name /\ Trim(rawChats[l].name) # <<>>
            \/ /\ rawChats[s].pushName = rawChats[l].pushName
               /\ Trim(rawChats[l].pushName) # <<>>)
        => MergedIntoStandard(s, l)

C3_Witness ==
    /\ dpc = "done"
    /\ StdLidPair(2, 1)
    /\ rawChats[1].name = rawChats[2].name
    /\ Trim(rawChats[1].name) # <<>>
    /\ rawChats[1].unreadCount > 0
    /\ rawChats[2].unreadCount > 0
    /\ Len(dedupResult.chats) = 1
    /\ Len(dedupResult.chats[1]._allJids) = 2

\* the key-pass entries of the input
KeyEntries == keyPass(rawChats).map

\* a linked-kind entry whose address is not phone-derivable and whose name and
\* push name match no standard-kind entry of its instance
UnresolvableLid(e) ==
    /\ isLidJid(RawJidOf(e.chat))
    /\ normalizeJid(RawJidOf(e.chat)) = RawJidOf(e.chat)
    /\ \A i \in 1..Len(KeyEntries) :
         (/\ isStandardUserJid(RawJidOf(KeyEntries[i].chat))
          /\ KeyEntries[i].chat.instanceName = e.chat.instanceName)
         => ~namesMatch(e.chat, KeyEntries[i].chat)

\* C4: a linked-kind chat whose address is not phone-derivable and whose name
\* and push name match no standard chat of its instance is no row of the
\* returned list, and its address is recorded in unmatchedLidsByInstance
\* under its instance name.
C4_UnresolvedLidRecorded ==
    dpc = "done" =>
      \A i \in 1..Len(KeyEntries) :
        UnresolvableLid(KeyEntries[i]) =>
          LET jidL == RawJidOf(KeyEntries[i].chat)
              inst == KeyEntries[i].chat.instanceName
          IN  /\ \A r \in 1..Len(dedupResult.chats) :
                   ~(/\ RawJidOf(dedupResult.chats[r]) = jidL
                     /\ dedupResult.chats[r].instanceName = inst)
              /\ \E u \in 1..Len(dedupResult.unmatchedLidsByInstance) :
                   /\ dedupResult.unmatchedLidsByInstance[u].instance = inst
                   /\ InSeq(jidL, dedupResult.unmatchedLidsByInstance[u].jids)

\* ------------------------------------------------------------------------
\* Claims about getChats (checked under SpecChats)
\* ------------------------------------------------------------------------
\* the chat-list call of the i-th instance rejected or came back non-success
FailedCall(i) == chatCalls[i].reply.kind \in {"throw", "httpError"}

\* the rows of one instance in a chat list, without their address lists
RowsOfInstance(chats, name) ==
    { [chats[k] EXCEPT !._allJids = <<>>] :
        k \in { n \in 1..Len(chats) : chats[n].instanceName = name } }

\* what the i-th instance alone contributes: its own reply, deduplicated
OwnRows(i) ==
    LET name == userInstances[i].displayName
        own == IF chatCalls[i].reply.kind = "array" THEN chatCalls[i].reply.chats
               ELSE <<>>
    IN  RowsOfInstance(deduplicateChats(taggedChatsOf(own, name)).chats, name)

\* C5: when the chat-list call of an instance fails (the request rejects or
\* the gateway answers with a non-success status), getChats still answers
\* 200; every instance is reported under its display name, with
\* connected = false exactly for the instances whose call failed; a failed
\* instance contributes no row, and every other instance contributes exactly
\* the rows its own reply yields.
C5_FailedInstanceIsolated ==
    (cpc = "done" /\ \E i \in 1..Len(chatCalls) : FailedCall(i))
    => /\ chatsResponse.status = 200
       /\ Len(chatsResponse.instances) = Len(userInstances)
       /\ chatsResponse.totalInstances = Len(userInstances)
       /\ \A i \in 1..Len(chatCalls) :
            /\ chatsResponse.instances[i].name = userInstances[i].displayName
            /\ chatsResponse.instances[i].connected = ~FailedCall(i)
            /\ FailedCall(i) =>
                 RowsOfInstance(chatsResponse.chats, userInstances[i].displayName) = {}
            /\ ~FailedCall(i) =>
                 RowsOfInstance(chatsResponse.chats, userInstances[i].displayName)
                   = OwnRows(i)

\* the first instance's call rejected, the second instance delivered two rows
C5_Witness ==
    /\ cpc = "done"
    /\ Len(chatCalls) = 2
    /\ chatCalls[1].reply.kind = "throw"
    /\ chatCalls[2].reply.kind = "array"
    /\ Len(chatsResponse.chats) = 2
    /\ chatsResponse.connectedInstances = 1

\* C9: the chats of a successful getChats response are in non-increasing
\* order of getChatTimestamp.
C9_SortedByRecency ==
    (cpc = "done" /\ chatsResponse.status = 200)
    => \A k \in 1..(Len(chatsResponse.chats) - 1) :
         getChatTimestamp(chatsResponse.chats[k])
           >= getChatTimestamp(chatsResponse.chats[k + 1])

\* four rows of two instances, interleaved by the sort
C9_Witness ==
    /\ cpc = "done"
    /\ chatsResponse.status = 200
    /\ Len(chatsResponse.chats) = 4
    /\ chatsResponse.chats[1].instanceName = InstA
    /\ chatsResponse.chats[2].instanceName = InstB
    /\ chatsResponse.chats[3].instanceName = InstA
    /\ getChatTimestamp(chatsResponse.chats[1]) > getChatTimestamp(chatsResponse.chats[2])
    /\ getChatTimestamp(chatsResponse.chats[2]) > getChatTimestamp(chatsResponse.chats[3])

\* ------------------------------------------------------------------------
\* Claims about getMessages (checked under SpecMsgs)
\* ------------------------------------------------------------------------
\* the record lists the per-address calls resolved to, in query-set order
RecordLists == [i \in 1..Len(msgCalls) |-> msgCalls[i].result.records]

\* how often the record r occurs in the lists / in the output
OccurrencesInLists(r) ==
    Cardinality({ ik \in (1..Len(msgCalls)) \X (1..MaxRecords) :
                    /\ ik[2] <= Len(RecordLists[ik[1]])
                    /\ RecordLists[ik[1]][ik[2]] = r })

OccurrencesInOutput(r) ==
    Cardinality({ a \in 1..Len(msgResponse.messages) : msgResponse.messages[a] = r })

\* C6: in a successful getMessages response every message-key id occurs in
\* at most one record, every id some per-address list returned occurs in the
\* output, and a returned record without an extractable id occurs in the
\* output as often as it occurs in the lists.
C6_MergedById ==
    (mpc = "done" /\ msgResponse.status = 200)
    => LET out == msgResponse.messages
       IN  /\ \A a, b \in 1..Len(out) :
                (a < b /\ keyIdOf(out[a]) # "") => keyIdOf(out[a]) # keyIdOf(out[b])
           /\ \A i \in 1..Len(msgCalls) : \A k \in 1..Len(RecordLists[i]) :
                LET r == RecordLists[i][k]
                IN  IF keyIdOf(r) # ""
                    THEN \E a \in 1..Len(out) : keyIdOf(out[a]) = keyIdOf(r)
                    ELSE OccurrencesInOutput(r) = OccurrencesInLists(r)
           /\ msgResponse.total = Len(out)

\* one id twice within a list and in two further lists, and a record without
\* id twice: three records come out
C6_Witness ==
    /\ mpc = "done"
    /\ msgResponse.status = 200
    /\ Len(msgCalls) = 3
    /\ \E i \in 1..3 : /\ Len(RecordLists[i]) = 2
                       /\ keyIdOf(RecordLists[i][1]) = "m1"
                       /\ keyIdOf(RecordLists[i][2]) = "m1"
    /\ \E i \in 1..3 : /\ Len(RecordLists[i]) = 2
                       /\ keyIdOf(RecordLists[i][1]) = ""
                       /\ keyIdOf(RecordLists[i][2]) = ""
    /\ \E i \in 1..3 : /\ Len(RecordLists[i]) = 1
                       /\ keyIdOf(RecordLists[i][1]) = "m1"
    /\ Len(msgResponse.messages) = 3

\* the message-list call of the i-th address rejected, came back non-success
\* or came back with a body of none of the three known shapes
FailedMsgCall(i) == msgCalls[i].reply.kind \in {"throw", "httpError", "other"}

\* C10: a message-list call that fails (network error, non-success status,
\* unexpected body) resolves to the empty list without throwing, and
\* getMessages still answers 200 with the records of the sibling calls: each
\* of their ids is in the output, and each of their records without id is in
\* the output itself.
C10_FailedAddressIsolated ==
    (mpc = "done" /\ \E i \in 1..Len(msgCalls) : FailedMsgCall(i))
    => /\ msgResponse.status = 200
       /\ \A i \in 1..Len(msgCalls) :
            /\ ~msgCalls[i].result.threw
            /\ FailedMsgCall(i) => msgCalls[i].result.records = <<>>
            /\ ~FailedMsgCall(i) =>
                 \A k \in 1..Len(msgCalls[i].reply.records) :
                   LET r == msgCalls[i].reply.records[k]
                   IN  \E a \in 1..Len(msgResponse.messages) :
                         IF keyIdOf(r) # ""
                         THEN keyIdOf(msgResponse.messages[a]) = keyIdOf(r)
                         ELSE msgResponse.messages[a] = r

\* two of three calls failed, the third one's two records are returned
C10_Witness ==
    /\ mpc = "done"
    /\ Len(msgCalls) = 3
    /\ msgCalls[1].reply.kind = "throw"
    /\ msgCalls[2].reply.kind = "httpError"
    /\ msgCalls[3].reply.kind = "records"
    /\ Len(msgCalls[3].reply.records) = 1
    /\ msgResponse.status = 200
    /\ msgResponse.messages = msgCalls[3].reply.records

\* ------------------------------------------------------------------------
\* Claims about a whole request (checked under SpecRequests)
\* ------------------------------------------------------------------------
ChatsResponded == chatsResponse # NoResponse
MessagesResponded == msgResponse # NoMsgResponse

\* C11: getChats has not responded while a chat-list call (or a contact
\* lookup) is pending, getMessages has not responded while a message-list
\* call is pending, and a request that was started eventually responds.
C11_RespondsAfterJoin ==
    /\ [](ChatsResponded =>
            /\ \A i \in 1..Len(chatCalls) : chatCalls[i].state = "settled"
            /\ lookupAt = 0)
    /\ [](MessagesResponded =>
            \A i \in 1..Len(msgCalls) : msgCalls[i].state = "settled")
    /\ (cpc = "start" ~> (cpc = "done" /\ ChatsResponded))
    /\ (mpc = "start" ~> (mpc = "done" /\ MessagesResponded))

\* getMessages responded after its two calls settled, the second one first
C11_Witness ==
    /\ MessagesResponded
    /\ msgResponse.status = 200
    /\ Len(msgCalls) = 2
    /\ msgOrder = <<2, 1>>

\* ------------------------------------------------------------------------
\* Claims about both handlers (C12 under SpecHandlers, C13 under SpecRequests)
\* ------------------------------------------------------------------------
NoDuplicates(seq) == \A a, b \in 1..Len(seq) : a # b => seq[a] # seq[b]

\* C12: no upstream call is issued twice within a request.  getChats has one
\* chat-list call per instance of the user, each settling at most once, and
\* at most one contact lookup per instance, only for instances with
\* unmatched linked identifiers; getMessages has one message-list call per
\* address of the query set, whose addresses are pairwise distinct, each
\* settling at most once.
C12_NoRetry ==
    /\ Len(chatCalls) = Len(userInstances)
    /\ NoDuplicates(chatOrder)
    /\ \A i \in 1..Len(chatCalls) :
         (chatCalls[i].state = "settled") <=> InSeq(i, chatOrder)
    /\ NoDuplicates(lookups)
    /\ \A k \in 1..Len(lookups) :
         \E e \in 1..Len(unmatchedLids) :
           unmatchedLids[e].instance = lookups[k] /\ unmatchedLids[e].jids # <<>>
    /\ NoDuplicates(jidsToQuery)
    /\ Len(msgCalls) = Len(jidsToQuery)
    /\ NoDuplicates(msgOrder)
    /\ \A i \in 1..Len(msgCalls) :
         (msgCalls[i].state = "settled") <=> InSeq(i, msgOrder)

\* the extra addresses repeat a variation of the conversation address, two
\* of the three calls failed, and the request is answered
C12_Witness ==
    /\ mpc = "done"
    /\ request.remoteJid = Jid13
    /\ request.allJids # <<>>
    /\ Len(jidsToQuery) = 3
    /\ msgCalls[1].reply.kind = "throw"
    /\ msgCalls[2].reply.kind = "httpError"
    /\ Len(msgOrder) = 3

Misconfigured == ~(config.baseUrl /\ config.apiKey)

GroupOrBroadcastKind(j) == EndsWith(j, GroupDomain) \/ EndsWith(j, BroadcastDomain)

\* C14: no chat whose address ends in @g.us or in @broadcast is among the
\* chats handed to deduplicateChats (the chats the settled calls resolved
\* to), and none is in the getChats response.
C14_NoGroupOrBroadcast ==
    /\ \A i \in 1..Len(chatCalls) : \A k \in 1..Len(chatCalls[i].result.chats) :
         ~GroupOrBroadcastKind(RawJidOf(chatCalls[i].result.chats[k]))
    /\ \A k \in 1..Len(chatsResponse.chats) :
         ~GroupOrBroadcastKind(RawJidOf(chatsResponse.chats[k]))

\* ------------------------------------------------------------------------
\* Further claims about getMessages (checked under SpecMsgs)
\* ------------------------------------------------------------------------
Range(seq) == { seq[i] : i \in 1..Len(seq) }

\* the non-empty extra addresses of the request
ExtraAddresses ==
    IF request.allJids = <<>> THEN {}
    ELSE { decodeURIComponent(Trim(piece)).value : piece \in Range(Split(request.allJids)) }
         \ { <<>> }

\* C15: when getMessages fans out, the addresses queried are exactly the
\* variations of the conversation address together with every non-empty
\* extra address and its variations, with one message-list call for each of
\* them; and from then on no address and no call is added or dropped.
C15_QuerySet ==
    /\ []((/\ mpc = "fanout"
           /\ \A i \in 1..Len(msgCalls) : msgCalls[i].state = "pending")
          => /\ Range(jidsToQuery)
                  = Range(getJidVariations(decodeURIComponent(request.remoteJid).value))
                    \cup UNION { {x} \cup Range(getJidVariations(x)) : x \in ExtraAddresses }
             /\ NoDuplicates(jidsToQuery)
             /\ Len(msgCalls) = Len(jidsToQuery))
    /\ [][mpc = "fanout" => /\ jidsToQuery' = jidsToQuery
                            /\ Len(msgCalls') = Len(msgCalls)]_vars

\* a linked conversation address with two extra addresses, one of them the
\* conversation address itself: three addresses are queried
C15_Witness ==
    /\ mpc = "fanout"
    /\ request.remoteJid = JidLidOpaque
    /\ Cardinality(ExtraAddresses) = 2
    /\ jidsToQuery = <<JidLidOpaque, Jid12, Jid13>>
    /\ Len(msgCalls) = 3

\* ------------------------------------------------------------------------
\* Further claims about deduplicateChats (checked under SpecDedup)
\* ------------------------------------------------------------------------
\* the positions of the input records that have an address
Addressed == { i \in 1..Len(rawChats) : RawJidOf(rawChats[i]) # <<>> }

KeyOfRecord(chat) == chatKey(RawJidOf(chat), chat.instanceName)

\* the input records that collided on the key of a map entry
CollidedOn(key) == { i \in Addressed : KeyOfRecord(rawChats[i]) = key }

\* C16: after the key-pass, an entry on which several records collided, one
\* of them standard-kind, has a standard-kind representative address,
\* whatever the order and the timestamps of the records.
C16_StandardRepresentative ==
    dpc = "done" =>
      LET map == keyPass(rawChats).map
      IN  \A k \in 1..Len(map) :
            (/\ Cardinality(CollidedOn(map[k].key)) >= 2
             /\ \E i \in CollidedOn(map[k].key) : isStandardUserJid(RawJidOf(rawChats[i])))
            => isStandardUserJid(RawJidOf(map[k].chat))

\* the input records merged into an output row: those of its instance whose
\* address the row carries in _allJids
MergedInto(row) ==
    { i \in Addressed :
        /\ rawChats[i].instanceName = row.instanceName
        /\ InSeq(RawJidOf(rawChats[i]), row._allJids) }

MaxOf(S) == CHOOSE m \in S : \A n \in S : n <= m

\* C17: the timestamp of every row deduplicateChats returns is the largest
\* timestamp of the raw records merged into it, by a key-pass collision or
\* by a name-pass fold.
C17_TimestampIsMax ==
    dpc = "done" =>
      \A k \in 1..Len(dedupResult.chats) :
        LET row == dedupResult.chats[k]
        IN  MergedInto(row) # {} =>
              getChatTimestamp(row)
                = MaxOf({ getChatTimestamp(rawChats[i]) : i \in MergedInto(row) })

\* the addresses recorded for the contact lookup of one instance
RecordedFor(inst) ==
    UNION { Range(dedupResult.unmatchedLidsByInstance[u].jids) :
              u \in { v \in 1..Len(dedupResult.unmatchedLidsByInstance) :
                        dedupResult.unmatchedLidsByInstance[v].instance = inst } }

\* the keys of the input records, by position
RecordKeys == [i \in 1..Len(rawChats) |-> KeyOfRecord(rawChats[i])]

\* the input record is linked-kind, no standard-kind record shares its key,
\* and its address was not recorded for the contact lookup: the name-pass
\* folded it into a row
FoldedByName(keys, i) ==
    /\ isLidJid(RawJidOf(rawChats[i]))
    /\ \A j \in Addressed : keys[j] = keys[i] => isLidJid(RawJidOf(rawChats[j]))
    /\ RawJidOf(rawChats[i]) \notin RecordedFor(rawChats[i].instanceName)

\* C18: every row deduplicateChats returns carries in _allJids its own
\* representative address and the raw address of every record merged into
\* it: the records that collided on its key, winners and losers of the
\* timestamp comparison alike, and the linked records the name-pass folded.
C18_AllAddressesKept ==
    dpc = "done" =>
      \A keys \in { RecordKeys } :
        /\ \A k \in 1..Len(dedupResult.chats) :
             \A rowKey \in { KeyOfRecord(dedupResult.chats[k]) } :
               /\ InSeq(RawJidOf(dedupResult.chats[k]), dedupResult.chats[k]._allJids)
               /\ \A i \in Addressed :
                    keys[i] = rowKey
                    => InSeq(RawJidOf(rawChats[i]), dedupResult.chats[k]._allJids)
        /\ \A i \in Addressed :
             FoldedByName(keys, i) =>
               \E k \in 1..Len(dedupResult.chats) :
                 /\ dedupResult.chats[k].instanceName = rawChats[i].instanceName
                 /\ ~isLidJid(RawJidOf(dedupResult.chats[k]))
                 /\ InSeq(RawJidOf(rawChats[i]), dedupResult.chats[k]._allJids)

\* three records in one row: a 13-digit record, an older 12-digit record
\* that lost the comparison, and a linked record folded by name
C18_Witness ==
    /\ dpc = "done"
    /\ Len(rawChats) = 3
    /\ Len(dedupResult.chats) = 1
    /\ RawJidOf(rawChats[1]) = Jid13
    /\ RawJidOf(rawChats[2]) = Jid12
    /\ getChatTimestamp(rawChats[2]) < getChatTimestamp(rawChats[1])
    /\ RawJidOf(rawChats[3]) = JidLidOpaque
    /\ dedupResult.chats[1]._allJids = <<Jid13, Jid12, JidLidOpaque>>

\* the input is three records of one instance: two standard-kind records of
\* different keys at positions a < b and a linked record at position l, of a
\* third key, whose name or push name matches both
LidMatchesTwo(a, b, l) ==
    /\ Len(rawChats) = 3
    /\ {a, b, l} = {1, 2, 3}
    /\ a < b
    /\ isStandardUserJid(RawJidOf(rawChats[a]))
    /\ isStandardUserJid(RawJidOf(rawChats[b]))
    /\ isLidJid(RawJidOf(rawChats[l]))
    /\ rawChats[a].instanceName = rawChats[l].instanceName
    /\ rawChats[b].instanceName = rawChats[l].instanceName
    /\ Cardinality({ KeyOfRecord(rawChats[i]) : i \in 1..3 }) = 3
    /\ namesMatch(rawChats[l], rawChats[a])
    /\ namesMatch(rawChats[l], rawChats[b])

\* C19: a linked entry whose name or push name matches several standard
\* entries of its instance is folded into the first of them in iteration
\* order and into no other: that row gains the linked address and the linked
\* unread count once, the other row is as its record was, and the linked
\* entry is no row and is not recorded for the contact lookup.
C19_FirstMatchWins ==
    (dpc = "done" /\ Len(rawChats) = 3) =>
      \A a, b, l \in 1..3 :
        LidMatchesTwo(a, b, l) =>
          /\ Len(dedupResult.chats) = 2
          /\ RawJidOf(dedupResult.chats[1]) = RawJidOf(rawChats[a])
          /\ dedupResult.chats[1]._allJids
               = <<RawJidOf(rawChats[a]), RawJidOf(rawChats[l])>>
          /\ OrZero(dedupResult.chats[1].unreadCount)
               = OrZero(rawChats[a].unreadCount) + OrZero(rawChats[l].unreadCount)
          /\ RawJidOf(dedupResult.chats[2]) = RawJidOf(rawChats[b])
          /\ dedupResult.chats[2]._allJids = <<RawJidOf(rawChats[b])>>
          /\ OrZero(dedupResult.chats[2].unreadCount) = OrZero(rawChats[b].unreadCount)
          /\ dedupResult.unmatchedLidsByInstance = <<>>

\* the linked record comes first, then the two standard records it matches
C19_Witness ==
    /\ dpc = "done"
    /\ LidMatchesTwo(2, 3, 1)
    /\ RawJidOf(rawChats[2]) = JidUk
    /\ RawJidOf(rawChats[3]) = Jid13
    /\ Len(dedupResult.chats) = 2

\* ------------------------------------------------------------------------
\* Further claims about getChats (checked under SpecChats)
\* ------------------------------------------------------------------------
\* a chat entry without its address set
WithoutAllJids(chat) == [chat EXCEPT !._allJids = <<>>]

OccurrencesOf(entry, chats) ==
    Cardinality({ i \in 1..Len(chats) : WithoutAllJids(chats[i]) = entry })

\* the two lists hold the same entries, each as often, when the address sets
\* are left aside
SameEntries(before, after) ==
    /\ Len(before) = Len(after)
    /\ \A i \in 1..Len(before) :
         OccurrencesOf(WithoutAllJids(before[i]), before)
           = OccurrencesOf(WithoutAllJids(before[i]), after)

\* the address set of every entry of the first list is kept or extended in
\* the second
AddressSetsGrow(before, after) ==
    \A i \in 1..Len(before) :
      \E k \in 1..Len(after) :
        /\ WithoutAllJids(after[k]) = WithoutAllJids(before[i])
        /\ Len(before[i]._allJids) <= Len(after[k]._allJids)
        /\ SubSeq(after[k]._allJids, 1, Len(before[i]._allJids)) = before[i]._allJids

\* C20: a step of resolveUnmatchedLids (the contact lookup of one instance
\* settling with a mapping, without one, or with a failure) adds no chat
\* entry and removes none, and leaves every field of every entry but _allJids
\* as it was: unread count, representative address and timestamp included.
C20_LookupChangesAddressSetsOnly ==
    [][cpc = "resolving" =>
         /\ SameEntries(allChats, allChats')
         /\ AddressSetsGrow(allChats, allChats')]_vars

\* a lookup resolved the unmatched linked identifier of an instance: it is in
\* the address set of a standard-kind row of the response
C20_Witness ==
    /\ cpc = "done"
    /\ chatsResponse.status = 200
    /\ lookups # <<>>
    /\ \E u \in 1..Len(unmatchedLids) :
         /\ InSeq(JidLidOpaque, unmatchedLids[u].jids)
         /\ \E k \in 1..Len(chatsResponse.chats) :
              /\ chatsResponse.chats[k].instanceName = unmatchedLids[u].instance
              /\ isStandardUserJid(RawJidOf(chatsResponse.chats[k]))
              /\ InSeq(JidLidOpaque, chatsResponse.chats[k]._allJids)

\* the linked identifier was recorded for the contact lookup of the instance
\* and is in the address set of no row of another representative address
UnresolvedInResponse(inst, lidJid) ==
    \A k \in 1..Len(chatsResponse.chats) :
      (/\ chatsResponse.chats[k].instanceName = inst
       /\ RawJidOf(chatsResponse.chats[k]) # lidJid)
      => ~InSeq(lidJid, chatsResponse.chats[k]._allJids)

\* C21: a chat whose linked address was recorded in unmatchedLidsByInstance
\* and that no contact lookup resolved (no mapping, or a failed lookup) is a
\* row of the getChats response under its linked address.
C21_UnresolvedLidStaysARow ==
    (cpc = "done" /\ chatsResponse.status = 200) =>
      \A u \in 1..Len(unmatchedLids) :
        \A j \in 1..Len(unmatchedLids[u].jids) :
          UnresolvedInResponse(unmatchedLids[u].instance, unmatchedLids[u].jids[j])
          => \E k \in 1..Len(chatsResponse.chats) :
               /\ chatsResponse.chats[k].instanceName = unmatchedLids[u].instance
               /\ RawJidOf(chatsResponse.chats[k]) = unmatchedLids[u].jids[j]

\* ------------------------------------------------------------------------
\* Further claims about the normaliser (checked under SpecNorm)
\* ------------------------------------------------------------------------
\* the part of an address before its first '@'
LocalPartOf(j) == SubSeq(j, 1, IndexOf(j, "@") - 1)

\* the address is a local part followed by '@lid'
LinkedAddress(j) ==
    /\ IndexOf(j, "@") > 0
    /\ SubSeq(j, IndexOf(j, "@"), Len(j)) = LidDomain

\* the segment of the local part before the ':' separator
SegmentOf(j) == SubSeq(LocalPartOf(j), 1, IndexOf(LocalPartOf(j), ":") - 1)

TenToFifteenDigits(seg) ==
    /\ Len(seg) \in 10..15
    /\ \A i \in 1..Len(seg) : seg[i] \in DigitSyms

\* the numbering-plan rule: a 12-digit number under country code 55 gets a
\* '9' behind its area code
NumberingPlan(seg) ==
    IF Len(seg) = 12 /\ seg[1] = "5" /\ seg[2] = "5"
    THEN SubSeq(seg, 1, 4) \o <<"9">> \o SubSeq(seg, 5, 12)
    ELSE seg

CallsReturning(id) ==
    { i \in 1..Len(msgCalls) :
        \E k \in 1..Len(RecordLists[i]) : keyIdOf(RecordLists[i][k]) = id }

\* the first record of the id in the list of call i
FirstRecordOf(id, i) ==
    RecordLists[i][CHOOSE k \in 1..Len(RecordLists[i]) :
                     /\ keyIdOf(RecordLists[i][k]) = id
                     /\ \A h \in 1..(k - 1) : keyIdOf(RecordLists[i][h]) # id]

\* the position of call i in the order of completion
CompletedAt(i) == CHOOSE a \in 1..Len(msgOrder) : msgOrder[a] = i

\* the ids several calls returned
SharedIds ==
    { id \in UNION { { keyIdOf(RecordLists[i][k]) : k \in 1..Len(RecordLists[i]) } :
                      i \in 1..Len(msgCalls) } \ {""} :
        Cardinality(CallsReturning(id)) >= 2 }

\* the record of the id in the output is the one of call i
KeptFrom(id, i) ==
    \A a \in 1..Len(msgResponse.messages) :
      keyIdOf(msgResponse.messages[a]) = id
      => msgResponse.messages[a] = FirstRecordOf(id, i)

\* C23 as stated: when several calls of one request return the same id, the
\* record kept is the one of the call that completed first.
C23_FirstCompletedWins ==
    (mpc = "done" /\ msgResponse.status = 200) =>
      \A id \in SharedIds :
        \A i \in CallsReturning(id) :
          (\A k \in CallsReturning(id) : CompletedAt(i) <= CompletedAt(k))
          => KeptFrom(id, i)

\* C23 amended: when several calls of one request return the same id, the
\* record kept is the one of the call for the first address in the order of
\* the query set, whatever the order in which the calls completed.
C23_FirstQueriedWins ==
    (mpc = "done" /\ msgResponse.status = 200) =>
      \A id \in SharedIds :
        \A i \in CallsReturning(id) :
          (\A k \in CallsReturning(id) : i <= k) => KeptFrom(id, i)

\* two calls return different records of one id, the second call completes
\* first, and the record of the first call is the one in the output
C23_Witness ==
    /\ mpc = "done"
    /\ msgResponse.status = 200
    /\ Len(msgCalls) = 2
    /\ msgOrder = <<2, 1>>
    /\ "m1" \in SharedIds
    /\ FirstRecordOf("m1", 1) # FirstRecordOf("m1", 2)
    /\ KeptFrom("m1", 1)

\* ------------------------------------------------------------------------
\* Claims about the timestamp extraction (checked under SpecTimestamp)
\* ------------------------------------------------------------------------
\* the field holds a timestamp: a wrapped low/high pair, or a positive number
\* (given as a number or as a string of digits)
HoldsTimestamp(t) == t.k = "long" \/ (t.k \in {"num", "str"} /\ t.v > 0)

\* the fallback chain: last-message timestamp, else updatedAt in whole
\* seconds, else lastMsgTimestamp, else conversationTimestamp, else 0
FallbackChain(c) ==
    IF c.lastMessage.present /\ HoldsTimestamp(c.lastMessage.messageTimestamp)
    THEN c.lastMessage.messageTimestamp.v
    ELSE IF c.updatedAt.k = "iso" THEN c.updatedAt.v \div 1000
    ELSE IF HoldsTimestamp(c.lastMsgTimestamp) THEN c.lastMsgTimestamp.v
    ELSE IF HoldsTimestamp(c.conversationTimestamp) THEN c.conversationTimestamp.v
    ELSE 0

\* the fields the timestamp is read from
ActivityOf(c) ==
    <<c.lastMessage, c.updatedAt, c.lastMsgTimestamp, c.conversationTimestamp>>

\* C24: getChatTimestamp is the last-message timestamp when the record holds
\* one (the low component of a wrapped pair), else updatedAt in whole seconds,
\* else the first legacy field that holds one (lastMsgTimestamp, then
\* conversationTimestamp), else 0; and the key-pass, the name-pass and the
\* sort decide by this value: against a reference record of timestamp 5 the
\* key-pass keeps the payload of the record iff its value is larger, the
\* name-pass adopts its lastMessage iff its value is larger and it has one,
\* and the sort puts it first iff its value is larger.
C24_TimestampChain ==
    tpc = "done" =>
      /\ timestamp = FallbackChain(tchat)
      /\ Len(comparisons.keyPass) = 1
      /\ (ActivityOf(comparisons.keyPass[1]) = ActivityOf(tchat))
           <=> (FallbackChain(tchat) > RefTimestamp)
      /\ Len(comparisons.namePass) = 1
      /\ (comparisons.namePass[1].lastMessage = tchat.lastMessage)
           <=> (FallbackChain(tchat) > RefTimestamp /\ tchat.lastMessage.present)
      /\ Len(comparisons.sort) = 2
      /\ (RawJidOf(comparisons.sort[1]) = JidUk)
           <=> (FallbackChain(tchat) > RefTimestamp)

\* a record without usable last-message timestamp whose updatedAt is later
\* than the reference: it wins the key-pass and sorts first
C24_Witness ==
    /\ tpc = "done"
    /\ tchat.lastMessage.present
    /\ tchat.lastMessage.messageTimestamp = NumVal(0)
    /\ tchat.updatedAt = IsoDate(6100)
    /\ tchat.lastMsgTimestamp = LongVal(6)
    /\ timestamp = 6
    /\ RawJidOf(comparisons.sort[1]) = JidUk
    /\ comparisons.keyPass[1].updatedAt = IsoDate(6100)

\* ------------------------------------------------------------------------
\* Claims about the whole of deduplicateChats (checked under SpecDedup)
\* ------------------------------------------------------------------------
\* C25: no contact is lost: the address of every raw chat that has one is in
\* the _allJids of a returned entry of its instance or is recorded in
\* unmatchedLidsByInstance for its instance.
C25_NoContactLost ==
    dpc = "done" =>
      \A i \in Addressed :
        \/ \E k \in 1..Len(dedupResult.chats) :
             /\ dedupResult.chats[k].instanceName = rawChats[i].instanceName
             /\ InSeq(RawJidOf(rawChats[i]), dedupResult.chats[k]._allJids)
        \/ RawJidOf(rawChats[i]) \in RecordedFor(rawChats[i].instanceName)

RecordsOfInstance(name) ==
    SelectSeq(FlatMapChats([i \in 1..Len(chatCalls) |-> chatCalls[i].result], 1),
              LAMBDA r : r.instanceName = name)

\* the sums of the unread counts of the sublists of a list of records
RECURSIVE UnreadSums(_)
UnreadSums(records) ==
    IF records = <<>> THEN { 0 }
    ELSE LET rest == UnreadSums(Tail(records))
         IN  rest \cup { n + OrZero(Head(records).unreadCount) : n \in rest }

\* C27: chats of different instances are never merged: in a getChats
\* response every address in the _allJids of a row is the address of a raw
\* record of the row's own instance, and the unread count of a row is a sum
\* of unread counts of raw records of its own instance.
C27_InstancesNotMerged ==
    (cpc = "done" /\ chatsResponse.status = 200) =>
      \A k \in 1..Len(chatsResponse.chats) :
        \A own \in { RecordsOfInstance(chatsResponse.chats[k].instanceName) } :
          /\ \A a \in 1..Len(chatsResponse.chats[k]._allJids) :
               \E r \in 1..Len(own) :
                 RawJidOf(own[r]) = chatsResponse.chats[k]._allJids[a]
          /\ OrZero(chatsResponse.chats[k].unreadCount) \in UnreadSums(own)

\* both instances hold the same contact, one of them also a linked chat of
\* the same name: two rows, and the linked address is in the row of its own
\* instance only
C27_Witness ==
    /\ cpc = "done"
    /\ chatsResponse.status = 200
    /\ Len(chatsResponse.chats) = 2
    /\ chatsResponse.chats[1].instanceName # chatsResponse.chats[2].instanceName
    /\ \A k \in 1..2 : InSeq(Jid13, chatsResponse.chats[k]._allJids)
    /\ \E k \in 1..2 :
         /\ InSeq(JidLidOpaque, chatsResponse.chats[k]._allJids)
         /\ ~InSeq(JidLidOpaque, chatsResponse.chats[3 - k]._allJids)

\* C28: for every address a, getJidVariations(a) has a as its first element,
\* has one or two elements, and every element v of it satisfies
\* normalizeJid(v) = normalizeJid(a).
C28_VariationsKeepContact ==
    npc = "done" =>
      /\ Len(variations) \in {1, 2}
      /\ variations[1] = jid
      /\ \A i \in 1..Len(variations) : variantInfo[i].norm = normalized

\* a canonical 13-digit Brazilian address: its second variation is the legacy
\* 12-digit spelling, which normalises back to the address itself
C28_Witness ==
    /\ npc = "done"
    /\ IsBrazilian13(jid)
    /\ Len(variations) = 2
    /\ variations[2] # jid
    /\ Len(variations[2]) = Len(jid) - 1
    /\ variantInfo[2].norm = jid
    /\ normalized = jid

\* ------------------------------------------------------------------------
\* Claims about the completion order of the concurrent upstream calls
\* (checked under SpecHandlers)
\* ------------------------------------------------------------------------
\* the per-instance statuses as the replies alone determine them, in the order
\* of the instance list
StatusesOfReplies ==
    [i \in 1..Len(chatCalls) |->
       [name |-> userInstances[i].displayName, connected |-> ~FailedCall(i)]]

\* the chats of the replies, one instance after the other in the order of the
\* instance list
RECURSIVE ChatsInInstanceOrder(_)
ChatsInInstanceOrder(i) ==
    IF i > Len(chatCalls) THEN <<>>
    ELSE chatCallResult(userInstances[i], chatCalls[i].reply).chats
           \o ChatsInInstanceOrder(i + 1)

\* the chat list as the replies alone determine it: the chats of the replies
\* taken in the order of the instance list, deduplicated and sorted
ChatsOfReplies == sortChats(deduplicateChats(ChatsInInstanceOrder(1)).chats)

\* the records of the replies, one list after the other in the order of the
\* query set
RECURSIVE RecordsInQueryOrder(_)
RecordsInQueryOrder(i) ==
    IF i > Len(msgCalls) THEN <<>>
    ELSE fetchMessagesForJid(msgCalls[i].reply).records \o RecordsInQueryOrder(i + 1)

\* the records of a list that have no id or whose id no earlier record of
\* the list has, in the order of the list
RECURSIVE FirstOccurrences(_, _)
FirstOccurrences(records, p) ==
    IF p > Len(records) THEN <<>>
    ELSE IF /\ keyIdOf(records[p]) # ""
            /\ \E q \in 1..(p - 1) : keyIdOf(records[q]) = keyIdOf(records[p])
         THEN FirstOccurrences(records, p + 1)
         ELSE <<records[p]>> \o FirstOccurrences(records, p + 1)

\* C29: the responses of getChats and getMessages do not depend on the order
\* in which the concurrent upstream calls complete: the per-instance statuses
\* and the chat list of getChats, and the merged message list of getMessages
\* with the duplicate that is kept and the order of the records, are those
\* that the replies determine when they are taken in the order of the
\* instance list and of the query set.  (The address sets of the chats also
\* depend on the contact lookups, which are not concurrent; without a lookup
\* the whole chat list is determined by the replies.)
C29_CompletionOrderIrrelevant ==
    /\ (cpc = "done" /\ chatsResponse.status = 200) =>
         \A expected \in { ChatsOfReplies } :
           /\ chatsResponse.instances = StatusesOfReplies
           /\ Len(chatsResponse.chats) = Len(expected)
           /\ \A k \in 1..Len(expected) :
                WithoutAllJids(chatsResponse.chats[k]) = WithoutAllJids(expected[k])
           /\ lookups = <<>> => chatsResponse.chats = expected
    /\ (mpc = "done" /\ msgResponse.status = 200) =>
         /\ msgResponse.messages = FirstOccurrences(RecordsInQueryOrder(1), 1)
         /\ msgResponse.total = Len(msgResponse.messages)

\* the chat-list call of the second instance settled before the one of the
\* first; both delivered a chat of the same timestamp, and the chat of the
\* first instance comes first in the response
C29_Witness ==
    /\ cpc = "done"
    /\ chatsResponse.status = 200
    /\ chatOrder = <<2, 1>>
    /\ Len(chatsResponse.chats) = 2
    /\ chatsResponse.chats[1].instanceName = userInstances[1].displayName
    /\ chatsResponse.chats[2].instanceName = userInstances[2].displayName
    /\ getChatTimestamp(chatsResponse.chats[1]) = getChatTimestamp(chatsResponse.chats[2])
    /\ chatsResponse.instances[1].connected
    /\ chatsResponse.instances[2].connected

\* ------------------------------------------------------------------------
\* Claims about the summary of a getChats response (checked under SpecChats)
\* ------------------------------------------------------------------------
\* the entries of the status list reported connected
ReportedConnected ==
    { i \in 1..Len(chatsResponse.instances) : chatsResponse.instances[i].connected }

\* C30: in every successful getChats response the status list has exactly
\* one entry per queried instance, connectedInstances is the number of
\* entries with connected = true and never exceeds totalInstances, and every
\* chat of the response is tagged with the display name of an instance that
\* is reported connected.
C30_ResponseSummaryConsistent ==
    (cpc = "done" /\ chatsResponse.status = 200) =>
      /\ Len(chatsResponse.instances) = Len(userInstances)
      /\ \A i \in 1..Len(userInstances) :
           chatsResponse.instances[i].name = userInstances[i].displayName
      /\ chatsResponse.connectedInstances = Cardinality(ReportedConnected)
      /\ chatsResponse.connectedInstances <= chatsResponse.totalInstances
      /\ \A k \in 1..Len(chatsResponse.chats) :
           \E i \in ReportedConnected :
             chatsResponse.chats[k].instanceName = chatsResponse.instances[i].name

\* two instances were queried, the call of the second one failed with a
\* non-success status, and the first one delivered the two chats of the
\* response
C30_Witness ==
    /\ cpc = "done"
    /\ chatsResponse.status = 200
    /\ Len(chatsResponse.instances) = 2
    /\ chatCalls[2].reply.kind = "httpError"
    /\ ReportedConnected = {1}
    /\ chatsResponse.connectedInstances = 1
    /\ chatsResponse.totalInstances = 2
    /\ Len(chatsResponse.chats) = 2
    /\ \A k \in 1..2 : chatsResponse.chats[k].instanceName = InstA

====
